---- MODULE Spec2Model ----
(***************************************************************************)
(* The presentation relay of the E-Poster application:                     *)
(*   - the API route  src/src/app/api/presentation/route.ts  (GET, POST)   *)
(*     over an Upstash Redis store whose keys expire 3600 s after the last *)
(*     set;                                                                *)
(*   - the React hook src/src/hooks/usePresentationSync.ts, which polls    *)
(*     the route on a timer and writes to it.                              *)
(* A request handler is split at every await on Redis; a fetch is split    *)
(* into the request being sent, the server answering it and the client     *)
(* receiving the answer.                                                   *)
(* The utilities of the poster list (abstractIdNormalizer, filenameParser, *)
(* spreadsheetParser, fileSystemManager, abstractListGenerator) are        *)
(* operators; a call of one of them is a specification of its own, in     *)
(* which the arguments are drawn first and the call returns in one step.   *)
(* The objects with a state of their own (a FileSystemManager, the         *)
(* interactionStore over localStorage, the LocalFilesProvider, the         *)
(* WebSocket relay websocket-server.js) have their variables and their     *)
(* specifications, one action per call or event handler.                   *)
(***************************************************************************)
EXTENDS Integers, Sequences, FiniteSets, TLC

----------------------------------------------------------------------------
(* Bounds of the model *)

\* writes to a room stop once its stored version reaches MaxVersion
MaxVersion == 3
\* the clock stops after MaxTicks ticks
MaxTicks == 2
\* failed polls are no longer injected once the counter reaches MaxErrors
MaxErrors == 6

(* Program constants *)

\* redis.set(roomKey, newState, { ex: 3600 })
TTL == 3600
\* const maxConsecutiveErrors = 5
maxConsecutiveErrors == 5

\* one tick of the model's clock, in seconds: half the expiry window
TickSeconds == TTL \div 2

----------------------------------------------------------------------------
(* Values *)

\* JavaScript null, as a payload
Null == "null"
\* what redis.get returns for a key that is absent or has expired
NoRoom == [nil |-> TRUE]
\* a query parameter or body field that is not given
Absent == << >>

\* room identifiers: non-empty strings
RoomIds == {"default", "r2"}
\* the hook's roomId (its default value)
HookRoom == "default"
\* SyncPresentationData values, abstracted to their identity
Payloads == {"p1"}

\* the `room` query parameter of a GET: absent, empty, or an identifier
RoomParams == {Absent, <<"">>} \cup {<<r>> : r \in RoomIds}
\* the `version` query parameter of a GET, after parseInt when present
VersionParams == {Absent} \cup {<<v>> : v \in (0 - 1)..(MaxVersion + 1)}
\* the `room` field of a POST body: absent or an identifier
RoomFields == {Absent} \cup {<<r>> : r \in RoomIds}
\* the `type` field of a POST body
Types == {"present_abstract", "close_presentation", "bogus"}

\* a key that leaves the room identifier out
getRoomKeyShared(roomId) == "presentation:"

\* `presentation:${roomId}`
getRoomKey(roomId) == "presentation:" \o roomId

Keys == {getRoomKey(r) : r \in RoomIds}

----------------------------------------------------------------------------
VARIABLES
    redis,      \* the Redis store: key -> NoRoom or a PresentationState
    now,        \* the clock (Date.now()), in seconds
    posts,      \* writer -> its POST being handled (read, answered) or Idle
    gets,       \* poll slot of the hook -> its GET in flight (sent, answered) or Idle
    returned,   \* history: per key, the versions returned to its writers, with
                \* the payloads they stored
    versionRef,             \* hook: versionRef.current
    mountedRef,             \* hook: mountedRef.current
    pollingRef,             \* hook: pollingRef.current holds a live interval
    consecutiveErrorsRef,   \* hook: consecutiveErrorsRef.current
    isConnected,            \* hook: state.isConnected
    delivered,  \* hook: last argument of onPresentationChange ("none": never called)
    input,      \* the arguments of a call of a utility function, or Idle
    output,     \* what the call returned, or Idle while it has not returned
    directoryHandle,    \* FileSystemManager: this.directoryHandle
    localStorage,       \* the browser's localStorage: key -> stored item
    provider,   \* LocalFilesProvider: its state (isLoaded, abstracts,
                \* spreadsheetRows, directoryHandle) and scannedFilesRef.current
    loads,      \* LocalFilesProvider: the loadDirectory and the loadSpreadsheet
                \* call in progress, or Idle
    clients,    \* websocket-server: the Map clients, clientId -> { ws, type, id }
    sockets     \* websocket-server: connection -> its readyState, the type and
                \* clientId of its handlers' closure, and what was sent on it

serverVars == <<redis, now>>
hookVars == <<versionRef, mountedRef, pollingRef, consecutiveErrorsRef,
              isConnected, delivered>>
\* the fields of the objects outside the relay
wsVars == <<clients, sockets>>
objectVars == <<directoryHandle, localStorage, provider, loads, wsVars>>
utilVars == <<input, output, objectVars>>
relayVars == <<serverVars, posts, gets, returned, hookVars>>
vars == <<redis, now, posts, gets, returned, versionRef, mountedRef,
          pollingRef, consecutiveErrorsRef, isConnected, delivered,
          input, output, objectVars>>

----------------------------------------------------------------------------
(* The route: GET *)

\* searchParams.get('room') || 'default'
GETroomId(roomParam) ==
    IF roomParam = Absent \/ roomParam = <<"">> THEN "default" ELSE roomParam[1]

\* parseInt(searchParams.get('version') || '0', 10)
GETclientVersion(versionParam) ==
    IF versionParam = Absent THEN 0 ELSE versionParam[1]

\* a GET that reports a change only to a client that is behind
GETonlyWhenBehind(roomParam, versionParam) ==
    LET roomId == GETroomId(roomParam)
        clientVersion == GETclientVersion(versionParam)
        room == redis[getRoomKey(roomId)]
    IN  IF room = NoRoom
        THEN [status |-> 200,
              body |-> [changed |-> (clientVersion = 0), abstract |-> Null,
                        timestamp |-> now, version |-> 0]]
        ELSE IF clientVersion >= room.version
        THEN [status |-> 200,
              body |-> [changed |-> FALSE, version |-> room.version]]
        ELSE [status |-> 200,
              body |-> [changed |-> TRUE, abstract |-> room.abstract,
                        timestamp |-> room.timestamp, version |-> room.version]]

\* a GET that treats an absent room as a stored room of version 0
GETabsentAsVersionZero(roomParam, versionParam) ==
    LET roomId == GETroomId(roomParam)
        clientVersion == GETclientVersion(versionParam)
        room == redis[getRoomKey(roomId)]
    IN  IF room = NoRoom
        THEN IF clientVersion = 0
             THEN [status |-> 200, body |-> [changed |-> FALSE, version |-> 0]]
             ELSE [status |-> 200,
                   body |-> [changed |-> TRUE, abstract |-> Null,
                             timestamp |-> now, version |-> 0]]
        ELSE IF clientVersion = room.version
        THEN [status |-> 200,
              body |-> [changed |-> FALSE, version |-> room.version]]
        ELSE [status |-> 200,
              body |-> [changed |-> TRUE, abstract |-> room.abstract,
                        timestamp |-> room.timestamp, version |-> room.version]]

\* the JSON answer of GET, computed from one redis.get
GET(roomParam, versionParam) ==
    LET roomId == GETroomId(roomParam)
        clientVersion == GETclientVersion(versionParam)
        room == redis[getRoomKey(roomId)]
    IN  IF room = NoRoom
        THEN [status |-> 200,
              body |-> [changed |-> (clientVersion = 0), abstract |-> Null,
                        timestamp |-> now, version |-> 0]]
        ELSE IF clientVersion = room.version
        THEN [status |-> 200,
              body |-> [changed |-> FALSE, version |-> room.version]]
        ELSE [status |-> 200,
              body |-> [changed |-> TRUE, abstract |-> room.abstract,
                        timestamp |-> room.timestamp, version |-> room.version]]

\* the catch branch of GET: redis.get threw
GETerror ==
    [status |-> 500, body |-> [success |-> FALSE]]

(* The route: POST *)

\* const { ..., room: roomId = 'default' } = body
POSTroomId(roomField) ==
    IF roomField = Absent THEN "default" ELSE roomField[1]

\* current?.version || 1
POSTcurrentVersionFromOne(current) ==
    IF current = NoRoom THEN 1 ELSE current.version

\* current?.version || 0
POSTcurrentVersion(current) ==
    IF current = NoRoom THEN 0 ELSE current.version

\* a POST that stores the version it read, without the increment
POSTnewStateNoIncrement(type, data, currentVersion) ==
    [abstract |-> IF type = "present_abstract" THEN data ELSE Null,
     timestamp |-> now,
     version |-> currentVersion]

\* newState of either branch of POST
POSTnewState(type, data, currentVersion) ==
    [abstract |-> IF type = "present_abstract" THEN data ELSE Null,
     timestamp |-> now,
     version |-> currentVersion + 1]

\* the answer after redis.set
POSTok(newState) ==
    [status |-> 200, body |-> [success |-> TRUE, version |-> newState.version]]

\* the two 400 answers (invalid type, or an exception)
POSTerror ==
    [status |-> 400, body |-> [success |-> FALSE]]

----------------------------------------------------------------------------
(* Requests in flight *)

Idle == [idle |-> TRUE]
NoResp == [none |-> TRUE]

\* this.directoryHandle before a directory is picked
NoDirectory == [kind |-> "none"]

\* spreadsheetRows (SpreadsheetRow[] | null): null, when no spreadsheet is
\* loaded, or the rows of the loaded one
NoSpreadsheet == [loaded |-> FALSE]
Loaded(rows) == [loaded |-> TRUE, rows |-> rows]

\* poster identifiers, and what localStorage.getItem returns for a key that
\* holds nothing
PosterIds == {"ABS-1", "ABS-2"}
NoItem == [item |-> "none"]

KEY_PREFIX == "eposter-interactions-"

\* `${KEY_PREFIX}${abstractId}`
storageKey(abstractId) == KEY_PREFIX \o abstractId

StorageKeys == {storageKey(p) : p \in PosterIds}

\* the hook as a writer, and two other controllers (tabs, devices); each has
\* at most one POST in flight
HookWriter == 0
Controllers == {1, 2}
Writers == {HookWriter} \cup Controllers
\* the hook's polls in flight
PollSlots == {1}

\* a POST whose handler has done its redis.get
PostMsg(roomField, type, data, current) ==
    [roomKey |-> getRoomKey(POSTroomId(roomField)), type |-> type, data |-> data,
     stage |-> "read", currentVersion |-> POSTcurrentVersion(current),
     newState |-> NoResp, resp |-> NoResp]

GetMsg(roomParam, versionParam) ==
    [room |-> roomParam, version |-> versionParam,
     stage |-> "sent", resp |-> NoResp]

----------------------------------------------------------------------------
\* the relay: an empty store, the hook just constructed
InitRelay ==
    /\ redis = [k \in Keys |-> NoRoom]
    /\ now = 0
    /\ posts = [w \in Writers |-> Idle]
    /\ gets = [s \in PollSlots |-> Idle]
    /\ returned = [k \in Keys |-> << >>]
    /\ versionRef = 0
    /\ mountedRef = TRUE
    /\ pollingRef = FALSE
    /\ consecutiveErrorsRef = 0
    /\ isConnected = TRUE
    /\ delivered = "none"

\* the objects outside the relay, just constructed
\* LocalFilesProvider at its first render
InitProvider ==
    /\ provider = [isLoaded |-> FALSE, abstracts |-> << >>,
                   spreadsheetRows |-> NoSpreadsheet,
                   directoryHandle |-> NoDirectory,
                   scannedFilesRef |-> << >>]
    /\ loads = [loadDirectory |-> Idle, loadSpreadsheet |-> Idle]

\* the connections a client may open
Sockets == {1, 2, 3}
NotConnected == [readyState |-> "CONNECTING"]

\* websocket-server listening, no client connected
InitServer ==
    /\ clients = << >>
    /\ sockets = [s \in Sockets |-> NotConnected]

InitObjects ==
    /\ directoryHandle = NoDirectory
    /\ localStorage = [k \in StorageKeys |-> NoItem]
    /\ InitProvider
    /\ InitServer

Init ==
    /\ InitRelay
    /\ InitObjects
    /\ input = Idle
    /\ output = Idle

----------------------------------------------------------------------------
(* Time and expiry *)

\* the key's expiry window has run out at time t
Expired(room, t) ==
    room # NoRoom /\ t - room.timestamp >= TTL

\* the clock advances by one tick; Redis drops the keys whose window ran out
Tick ==
    /\ now < MaxTicks * TickSeconds
    /\ now' = now + TickSeconds
    /\ redis' = [k \in Keys |->
                    IF Expired(redis[k], now + TickSeconds) THEN NoRoom ELSE redis[k]]

----------------------------------------------------------------------------
(* POST, step by step (server side).  The request of writer w reaches the  *)
(* handler, which runs up to its first await; the time at which the client *)
(* sent it changes nothing.                                                *)

\* const current = await redis.get(roomKey); const currentVersion = ...
POSTget(w, roomField, type, data) ==
    /\ posts[w] = Idle
    /\ posts' = [posts EXCEPT ![w] =
                    PostMsg(roomField, type, data,
                            redis[getRoomKey(POSTroomId(roomField))])]
    /\ UNCHANGED serverVars

\* redis.get throws: the catch branch answers 400
POSTgetError(w, roomField, type, data) ==
    /\ posts[w] = Idle
    /\ posts' = [posts EXCEPT ![w] =
                    [PostMsg(roomField, type, data, NoRoom)
                        EXCEPT !.stage = "answered", !.resp = POSTerror]]
    /\ UNCHANGED serverVars

\* a handler that stores the new state whatever the type is
POSTsetAnyType(w) ==
    LET m == posts[w]
        newState == POSTnewState(m.type, m.data, m.currentVersion)
    IN  /\ m # Idle /\ m.stage = "read"
        /\ m.currentVersion < MaxVersion
        /\ redis' = [redis EXCEPT ![m.roomKey] = newState]
        /\ posts' = [posts EXCEPT
                        ![w].stage = "answered",
                        ![w].newState = newState,
                        ![w].resp = IF m.type \in {"present_abstract",
                                                   "close_presentation"}
                                    THEN POSTok(newState) ELSE POSTerror]
        /\ now' = now

\* the rest of the handler: await redis.set(...) and the answer, or the 400
\* for a type that is neither present_abstract nor close_presentation
POSTset(w) ==
    LET m == posts[w] IN
    /\ m # Idle /\ m.stage = "read"
    /\ IF m.type \in {"present_abstract", "close_presentation"}
       THEN LET newState == POSTnewState(m.type, m.data, m.currentVersion)
            IN  /\ m.currentVersion < MaxVersion
                /\ redis' = [redis EXCEPT ![m.roomKey] = newState]
                /\ posts' = [posts EXCEPT ![w].stage = "answered",
                                          ![w].newState = newState,
                                          ![w].resp = POSTok(newState)]
       ELSE /\ redis' = redis
            /\ posts' = [posts EXCEPT ![w].stage = "answered", ![w].resp = POSTerror]
    /\ now' = now

\* redis.set throws: the catch branch answers 400, nothing is stored
POSTsetError(w) ==
    LET m == posts[w] IN
    /\ m # Idle /\ m.stage = "read"
    /\ m.type \in {"present_abstract", "close_presentation"}
    /\ posts' = [posts EXCEPT ![w].stage = "answered", ![w].resp = POSTerror]
    /\ UNCHANGED serverVars

\* the data field a body of the given type carries
DataOf(type, data) == IF type = "present_abstract" THEN data ELSE Null

\* the POST of a controller other than the hook: a body with one of the
\* given room fields and types
ControllerPOST(c, roomFields, types) ==
    \E roomField \in roomFields, type \in types, data \in Payloads :
        POSTget(c, roomField, type, DataOf(type, data))

\* the same, with redis.get throwing in the handler
ControllerPOSTError(c, roomFields, types) ==
    \E roomField \in roomFields, type \in types, data \in Payloads :
        POSTgetError(c, roomField, type, DataOf(type, data))

\* a controller other than the hook receives the answer to its POST
ControllerReceive(c) ==
    /\ posts[c] # Idle /\ posts[c].stage = "answered"
    /\ posts' = [posts EXCEPT ![c] = Idle]

----------------------------------------------------------------------------
(* The hook usePresentationSync, for roomId = HookRoom *)

\* pollForUpdates without its mountedRef test
pollForUpdatesUnguarded ==
    \E s \in DOMAIN gets :
        /\ gets[s] = Idle
        /\ gets' = [gets EXCEPT ![s] = GetMsg(<<HookRoom>>, <<versionRef>>)]

\* pollForUpdates up to its fetch: nothing when unmounted, else a GET carrying
\* versionRef.current is sent
pollForUpdates ==
    IF ~mountedRef
    THEN gets' = gets
    ELSE \E s \in DOMAIN gets :
            /\ gets[s] = Idle
            /\ gets' = [gets EXCEPT ![s] = GetMsg(<<HookRoom>>, <<versionRef>>)]

\* the effect that starts polling: mountedRef, the initial poll, setInterval
EffectStart ==
    /\ mountedRef /\ ~pollingRef
    /\ pollForUpdates
    /\ pollingRef' = TRUE
    /\ UNCHANGED <<mountedRef, versionRef, consecutiveErrorsRef, isConnected, delivered>>

\* the effect's dependencies change: its cleanup runs, then the effect again
EffectRestart ==
    /\ pollingRef
    /\ pollForUpdates
    /\ UNCHANGED <<mountedRef, pollingRef, versionRef, consecutiveErrorsRef,
                   isConnected, delivered>>

\* the effect's cleanup at unmount
Cleanup ==
    /\ pollingRef
    /\ mountedRef' = FALSE
    /\ pollingRef' = FALSE
    /\ UNCHANGED <<gets, versionRef, consecutiveErrorsRef, isConnected, delivered>>

\* the interval fires
TimerTick ==
    /\ pollingRef
    /\ pollForUpdates
    /\ UNCHANGED hookVars

\* refresh()
refresh ==
    /\ pollForUpdates
    /\ UNCHANGED hookVars

\* the route answers the poll in slot s
ServeGET(s) ==
    /\ gets[s] # Idle /\ gets[s].stage = "sent"
    /\ gets' = [gets EXCEPT ![s].stage = "answered",
                            ![s].resp = GET(gets[s].room, gets[s].version)]

\* redis.get throws while the route answers the poll in slot s
ServeGETError(s) ==
    /\ gets[s] # Idle /\ gets[s].stage = "sent"
    /\ gets' = [gets EXCEPT ![s].stage = "answered", ![s].resp = GETerror]

\* a catch branch that reports the disconnection at the first failure
PollCatchNoThreshold ==
    /\ consecutiveErrorsRef < MaxErrors
    /\ consecutiveErrorsRef' = consecutiveErrorsRef + 1
    /\ isConnected' = IF mountedRef THEN FALSE ELSE isConnected
    /\ UNCHANGED <<versionRef, delivered>>

\* the catch branch of pollForUpdates
PollCatch ==
    /\ consecutiveErrorsRef < MaxErrors
    /\ consecutiveErrorsRef' = consecutiveErrorsRef + 1
    /\ isConnected' = IF mountedRef /\ consecutiveErrorsRef + 1 >= maxConsecutiveErrors
                      THEN FALSE ELSE isConnected
    /\ UNCHANGED <<versionRef, delivered>>

\* pollForUpdates after its fetch resolved with a response.ok answer
PollSuccess(result) ==
    /\ consecutiveErrorsRef' = 0
    /\ isConnected' = IF mountedRef THEN TRUE ELSE isConnected
    /\ IF result.changed
       THEN /\ versionRef' = result.version
            /\ delivered' = result.abstract
       ELSE UNCHANGED <<versionRef, delivered>>

\* the answer to the poll in slot s arrives
PollReceive(s) ==
    /\ gets[s] # Idle /\ gets[s].stage = "answered"
    /\ gets' = [gets EXCEPT ![s] = Idle]
    /\ IF gets[s].resp.status = 200
       THEN PollSuccess(gets[s].resp.body)
       ELSE PollCatch
    /\ UNCHANGED <<mountedRef, pollingRef>>

\* the fetch of the poll in slot s rejects (the request or its answer is lost)
PollNetworkError(s) ==
    /\ gets[s] # Idle
    /\ gets' = [gets EXCEPT ![s] = Idle]
    /\ PollCatch
    /\ UNCHANGED <<mountedRef, pollingRef>>

\* presentAbstract(data) up to the handler's first await
presentAbstract(data) ==
    POSTget(HookWriter, <<HookRoom>>, "present_abstract", data)

\* closePresentation() up to the handler's first await
closePresentation ==
    POSTget(HookWriter, <<HookRoom>>, "close_presentation", Null)

\* the same two calls, with redis.get throwing in the handler
HookPOSTError ==
    \/ \E data \in Payloads :
          POSTgetError(HookWriter, <<HookRoom>>, "present_abstract", data)
    \/ POSTgetError(HookWriter, <<HookRoom>>, "close_presentation", Null)

\* presentAbstract / closePresentation after the fetch resolved
HookReceivePOST ==
    LET m == posts[HookWriter] IN
    /\ m # Idle /\ m.stage = "answered"
    /\ posts' = [posts EXCEPT ![HookWriter] = Idle]
    /\ IF m.resp.status = 200
       THEN /\ versionRef' = m.resp.body.version
            /\ consecutiveErrorsRef' = 0
            /\ isConnected' = IF m.type = "present_abstract" /\ mountedRef
                              THEN TRUE ELSE isConnected
       ELSE UNCHANGED <<versionRef, consecutiveErrorsRef, isConnected>>
    /\ UNCHANGED <<mountedRef, pollingRef, delivered>>

\* the fetch of the hook's POST rejects although the handler ran
HookPOSTLost ==
    /\ posts[HookWriter] # Idle /\ posts[HookWriter].stage = "answered"
    /\ posts' = [posts EXCEPT ![HookWriter] = Idle]
    /\ UNCHANGED hookVars

----------------------------------------------------------------------------
(* Specifications.  The presenter (Spec): the hook polling HookRoom on a   *)
(* big screen, a controller writing to that room, and time.               *)

WriteTypes == {"present_abstract", "close_presentation"}

HookPolling ==
    \/ EffectStart /\ UNCHANGED <<serverVars, posts, returned, utilVars>>
    \/ EffectRestart /\ UNCHANGED <<serverVars, posts, returned, utilVars>>
    \/ Cleanup /\ UNCHANGED <<serverVars, posts, returned, utilVars>>
    \/ TimerTick /\ UNCHANGED <<serverVars, posts, returned, utilVars>>
    \/ refresh /\ UNCHANGED <<serverVars, posts, returned, utilVars>>
    \/ \E s \in DOMAIN gets :
          ServeGET(s) /\ UNCHANGED <<serverVars, posts, returned, hookVars, utilVars>>
    \/ \E s \in DOMAIN gets :
          ServeGETError(s) /\ UNCHANGED <<serverVars, posts, returned, hookVars, utilVars>>
    \/ \E s \in DOMAIN gets :
          PollReceive(s) /\ UNCHANGED <<serverVars, posts, returned, utilVars>>
    \/ \E s \in DOMAIN gets :
          PollNetworkError(s) /\ UNCHANGED <<serverVars, posts, returned, utilVars>>

HookWriting ==
    \/ \E data \in Payloads :
          presentAbstract(data) /\ UNCHANGED <<gets, returned, hookVars, utilVars>>
    \/ closePresentation /\ UNCHANGED <<gets, returned, hookVars, utilVars>>
    \/ HookPOSTError /\ UNCHANGED <<gets, returned, hookVars, utilVars>>
    \/ POSTset(HookWriter) /\ UNCHANGED <<gets, returned, hookVars, utilVars>>
    \/ POSTsetError(HookWriter) /\ UNCHANGED <<gets, returned, hookVars, utilVars>>
    \/ HookReceivePOST /\ UNCHANGED <<serverVars, gets, returned, utilVars>>
    \/ HookPOSTLost /\ UNCHANGED <<serverVars, gets, returned, utilVars>>

ControllerWriting(c, roomFields, types) ==
    \/ ControllerPOST(c, roomFields, types) /\ UNCHANGED <<gets, returned, hookVars, utilVars>>
    \/ ControllerPOSTError(c, roomFields, types) /\ UNCHANGED <<gets, returned, hookVars, utilVars>>
    \/ POSTset(c) /\ UNCHANGED <<gets, returned, hookVars, utilVars>>
    \/ POSTsetError(c) /\ UNCHANGED <<gets, returned, hookVars, utilVars>>
    \/ ControllerReceive(c) /\ UNCHANGED <<serverVars, gets, returned, hookVars, utilVars>>

(* The API alone: two controllers writing concurrently to the two rooms *)

NextAPI ==
    \E c \in Controllers : ControllerWriting(c, RoomFields, Types)

SpecAPI == Init /\ [][NextAPI]_vars

(* The presenter *)

Next ==
    \/ HookPolling
    \/ ControllerWriting(1, {<<HookRoom>>}, WriteTypes)
    \/ Tick /\ UNCHANGED <<posts, gets, returned, hookVars, utilVars>>

Spec == Init /\ [][Next]_vars

(* The laptop: the hook polling its room and writing to it *)

NextLaptop ==
    \/ HookPolling
    \/ HookWriting

SpecLaptop == Init /\ [][NextLaptop]_vars

(* Sequential writers: a POST reaches the handler only when no other POST  *)
(* is being handled, and no key expires                                    *)

NoHandlerRunning == \A w \in Writers : posts[w] = Idle

\* a controller receives the answer; the history records what it was returned
SeqReceive(c) ==
    /\ ControllerReceive(c)
    /\ returned' = IF posts[c].resp.status = 200
                   THEN [returned EXCEPT ![posts[c].roomKey] =
                            Append(@, [version |-> posts[c].resp.body.version,
                                       abstract |-> posts[c].newState.abstract])]
                   ELSE returned

\* the clock advances while every stored key stays within its expiry window
TickWithinTTL ==
    /\ Tick
    /\ \A k \in Keys : ~Expired(redis[k], now + TickSeconds)

NextSeq ==
    \/ \E c \in Controllers :
          /\ NoHandlerRunning
          /\ ControllerPOST(c, RoomFields, Types)
          /\ UNCHANGED <<gets, returned, hookVars, utilVars>>
    \/ \E c \in Controllers :
          /\ NoHandlerRunning
          /\ ControllerPOSTError(c, RoomFields, Types)
          /\ UNCHANGED <<gets, returned, hookVars, utilVars>>
    \/ \E c \in Controllers :
          POSTset(c) /\ UNCHANGED <<gets, returned, hookVars, utilVars>>
    \/ \E c \in Controllers :
          POSTsetError(c) /\ UNCHANGED <<gets, returned, hookVars, utilVars>>
    \/ \E c \in Controllers :
          SeqReceive(c) /\ UNCHANGED <<serverVars, gets, hookVars, utilVars>>
    \/ TickWithinTTL /\ UNCHANGED <<posts, gets, returned, hookVars, utilVars>>

SpecSeq == Init /\ [][NextSeq]_vars

----------------------------------------------------------------------------
(* Properties *)

\* the version a key holds: 0 when the key is absent
VersionOf(room) == IF room = NoRoom THEN 0 ELSE room.version

\* the payload a key holds: null when the key is absent
PayloadOf(room) == IF room = NoRoom THEN Null ELSE room.abstract

\* C1: on a room never written, sequential writes (present or close, in any
\* mix, each answered before the next is handled) are returned the versions
\* 1, 2, ..., N in this order and leave the stored version at N, whatever the
\* payloads are.
C1_SequentialVersions ==
    \A k \in Keys :
        /\ \A i \in 1..Len(returned[k]) : returned[k][i].version = i
        /\ NoHandlerRunning => VersionOf(redis[k]) = Len(returned[k])

\* three writes to one room were answered, two consecutive ones with the same
\* payload
C1_Witness ==
    \E k \in Keys :
        /\ NoHandlerRunning
        /\ Len(returned[k]) >= 3
        /\ returned[k][2].abstract = returned[k][3].abstract
        /\ returned[k][1].abstract # returned[k][2].abstract

\* C2: two writes to the same room whose handlers overlap are returned
\* distinct versions.  Two answers to writes of one key that were stored less
\* than one expiry window apart carry different versions.
C2_OverlappingWritersDistinct ==
    \A c1, c2 \in Controllers :
        LET m1 == posts[c1]
            m2 == posts[c2]
        IN  ( /\ c1 # c2
              /\ m1 # Idle /\ m1.stage = "answered" /\ m1.resp.status = 200
              /\ m2 # Idle /\ m2.stage = "answered" /\ m2.resp.status = 200
              /\ m1.roomKey = m2.roomKey
              /\ m1.newState.timestamp - m2.newState.timestamp < TTL
              /\ m2.newState.timestamp - m1.newState.timestamp < TTL )
            => m1.resp.body.version # m2.resp.body.version


HookKey == getRoomKey(HookRoom)

\* the values a client may supply as sinceVersion
SinceVersions == (0 - 1)..(MaxVersion + 1)

\* no request is in flight
Quiet ==
    /\ \A w \in Writers : posts[w] = Idle
    /\ \A s \in PollSlots : gets[s] = Idle

\* C3: once writes have stopped and polls keep succeeding, the payload last
\* delivered to onPresentationChange comes to equal the payload the server
\* holds.  In a state with no request in flight, the hook polling, the room
\* absent and the next poll answered "unchanged", no later poll changes
\* anything: there the delivered payload is the server's, null.
C3_SettledPresenterShowsServerPayload ==
    ( /\ Quiet
      /\ mountedRef /\ pollingRef
      /\ redis[HookKey] = NoRoom
      /\ ~GET(<<HookRoom>>, <<versionRef>>).body.changed )
    => delivered = PayloadOf(redis[HookKey])

\* C4: for a room stored with version v, a read with sinceVersion = v is
\* answered changed=false with version v and no payload, and a read with any
\* other sinceVersion is answered changed=true with the stored payload, the
\* stored timestamp and version v.
C4_ReadOfStoredRoom ==
    \A r \in RoomIds, sv \in SinceVersions :
        LET room == redis[getRoomKey(r)]
            answer == GET(<<r>>, <<sv>>)
        IN  room # NoRoom =>
              /\ answer.status = 200
              /\ answer.body =
                    IF sv = room.version
                    THEN [changed |-> FALSE, version |-> room.version]
                    ELSE [changed |-> TRUE, abstract |-> room.abstract,
                          timestamp |-> room.timestamp, version |-> room.version]

\* a poll carrying version 2 was answered "unchanged" by a room stored at 2
C4_Witness ==
    \E s \in PollSlots :
        /\ gets[s] # Idle /\ gets[s].stage = "answered"
        /\ gets[s].resp.status = 200
        /\ ~gets[s].resp.body.changed
        /\ gets[s].resp.body.version = 2
        /\ VersionOf(redis[HookKey]) = 2

\* C5: a read with sinceVersion 0 of a room that holds no state is answered
\* changed=true with a null payload and version 0, and the hook hands the
\* answer to a poll it sent with version 0 to onPresentationChange.
C5_FirstPollDelivers ==
    [][ /\ \A r \in RoomIds :
              redis[getRoomKey(r)] = NoRoom =>
                 GET(<<r>>, <<0>>) =
                    [status |-> 200,
                     body |-> [changed |-> TRUE, abstract |-> Null,
                               timestamp |-> now, version |-> 0]]
        /\ \A s \in PollSlots :
              ( /\ PollReceive(s)
                /\ gets[s].version = <<0>>
                /\ gets[s].resp.status = 200 )
              => /\ gets[s].resp.body.changed
                 /\ delivered' = gets[s].resp.body.abstract
                 /\ versionRef' = gets[s].resp.body.version ]_vars

\* the first poll of a room never written delivered null
C5_Witness ==
    /\ delivered = Null
    /\ versionRef = 0
    /\ now = 0
    /\ redis[HookKey] = NoRoom

\* C6: a read whose sinceVersion differs from the room's current version (0
\* for a room that is absent or has expired) is answered changed=true with
\* the current payload and version.
C6_ChangedWheneverVersionsDiffer ==
    [][ \A s \in PollSlots :
            ServeGET(s) =>
               LET room == redis[getRoomKey(GETroomId(gets[s].room))]
                   body == gets'[s].resp.body
               IN  gets[s].version[1] # VersionOf(room) =>
                      /\ body.changed
                      /\ body.version = VersionOf(room)
                      /\ body.abstract = PayloadOf(room) ]_vars

\* C7: once the expiry window of a room has run out without a write, the
\* room is gone; a room that is gone answers reads as a room never written
\* (version 0, null payload, changed only for sinceVersion 0), a write
\* handled then reads version 0, and a write that read version 0 stores and
\* returns version 1.
C7_ExpiredRoomIsFresh ==
    [][ /\ \A k \in Keys :
              (redis[k] # NoRoom /\ now' - redis[k].timestamp >= TTL)
                 => redis'[k] = NoRoom
        /\ \A r \in RoomIds, sv \in SinceVersions :
              redis[getRoomKey(r)] = NoRoom =>
                 GET(<<r>>, <<sv>>) =
                    [status |-> 200,
                     body |-> [changed |-> (sv = 0), abstract |-> Null,
                               timestamp |-> now, version |-> 0]]
        /\ \A w \in Writers :
              ( /\ posts[w] = Idle /\ posts'[w] # Idle
                /\ posts'[w].stage = "read"
                /\ redis[posts'[w].roomKey] = NoRoom )
              => posts'[w].currentVersion = 0
        /\ \A w \in Writers :
              ( /\ posts[w] # Idle /\ posts[w].stage = "read"
                /\ posts[w].currentVersion = 0
                /\ posts'[w] # Idle /\ posts'[w].stage = "answered"
                /\ posts'[w].resp.status = 200 )
              => /\ redis'[posts[w].roomKey] # NoRoom
                 /\ redis'[posts[w].roomKey].version = 1
                 /\ posts'[w].resp.body.version = 1 ]_vars

\* the hook saw version 2 of its room, and the room is now stored at version
\* 1 by a write made after the expiry
C7_Witness ==
    /\ versionRef = 2
    /\ redis[HookKey] # NoRoom
    /\ redis[HookKey].version = 1
    /\ redis[HookKey].timestamp >= TTL

\* C8: a step of a request addressed to room A leaves the stored state of
\* every other room B, and the answer to every read of B, as they were.
C8_RoomIsolation ==
    [][ \A a, b \in RoomIds, c \in Controllers :
            ( /\ a # b
              /\ posts'[c] # posts[c]
              /\ \/ posts[c] # Idle /\ posts[c].roomKey = getRoomKey(a)
                 \/ posts'[c] # Idle /\ posts'[c].roomKey = getRoomKey(a) )
            => /\ getRoomKey(a) # getRoomKey(b)
               /\ redis'[getRoomKey(b)] = redis[getRoomKey(b)]
               /\ \A rp \in RoomParams, vp \in VersionParams :
                     GETroomId(rp) = b => GET(rp, vp)' = GET(rp, vp) ]_vars

\* both rooms are stored, at different versions
C8_Witness ==
    /\ VersionOf(redis[getRoomKey("default")]) = 3
    /\ VersionOf(redis[getRoomKey("r2")]) = 1

\* a poll of the hook fails: its fetch rejects, or its answer is not ok
PollFailed(s) ==
    \/ PollNetworkError(s)
    \/ PollReceive(s) /\ gets[s].resp.status # 200

\* a poll of the hook succeeds
PollSucceeded(s) ==
    PollReceive(s) /\ gets[s].resp.status = 200

\* a write of the hook succeeds
WriteSucceeded ==
    HookReceivePOST /\ posts[HookWriter].resp.status = 200

\* C9: isConnected starts true; it becomes false only on a failed poll that
\* brings the count of consecutive failed polls (since the last successful
\* poll or write) to 5 or more; a failed poll that leaves the count below 5
\* leaves isConnected as it is; a successful poll resets the count to 0 and
\* sets isConnected to true.  (isConnected is the state of a mounted
\* component: once the cleanup has run there is no status left to set, and
\* the hook calls setState only while mountedRef holds.)
C9_ConnectionStatus ==
    /\ isConnected = TRUE /\ consecutiveErrorsRef = 0
    /\ [][ /\ (isConnected /\ ~isConnected') =>
                 /\ \E s \in PollSlots : PollFailed(s)
                 /\ consecutiveErrorsRef' >= 5
           /\ \A s \in PollSlots :
                 PollFailed(s) =>
                    /\ consecutiveErrorsRef' = consecutiveErrorsRef + 1
                    /\ consecutiveErrorsRef' < 5 => isConnected' = isConnected
           /\ \A s \in PollSlots :
                 PollSucceeded(s) =>
                    /\ consecutiveErrorsRef' = 0
                    /\ mountedRef => isConnected'
           /\ WriteSucceeded => consecutiveErrorsRef' = 0
           /\ ( /\ ~ \E s \in PollSlots : PollFailed(s) \/ PollSucceeded(s)
                /\ ~WriteSucceeded )
              => consecutiveErrorsRef' = consecutiveErrorsRef ]_vars

\* the hook has written successfully, has had no poll delivered, and five
\* polls in a row have failed: it is disconnected
C9_Witness ==
    /\ ~isConnected
    /\ consecutiveErrorsRef = 5
    /\ versionRef = 1
    /\ delivered = "none"

\* C10: after the cleanup has run, the interval is cleared and no poll
\* request is sent any more, by a timer tick or by refresh().
C10_NoPollAfterUnmount ==
    [][ ~mountedRef =>
           /\ ~pollingRef /\ ~pollingRef'
           /\ \A s \in PollSlots :
                 \/ gets'[s] = Idle
                 \/ /\ gets[s] # Idle
                    /\ gets'[s].room = gets[s].room
                    /\ gets'[s].version = gets[s].version ]_vars

\* the hook is unmounted and the poll it had in flight has completed
C10_Witness ==
    /\ ~mountedRef
    /\ \A s \in PollSlots : gets[s] = Idle
    /\ delivered # "none"

----------------------------------------------------------------------------
(* The utilities.  JavaScript strings are TLA+ strings; a JavaScript       *)
(* number is written as String(number) writes it: an integer is its        *)
(* decimal digits, Infinity is "Infinity".  The only whitespace character  *)
(* of the model's strings is the space.                                    *)

\* JavaScript undefined
Undefined == "undefined"
\* the number Infinity
Infinity == "Infinity"
\* a regular expression that did not match
NoMatch == [matched |-> FALSE]

\* the operand of !x, x || y, x ? a : b is truthy
Truthy(x) == x \notin {"", Null, Undefined}
\* x || y
Or(x, y) == IF Truthy(x) THEN x ELSE y

DigitChars == "0123456789"
UpperChars == "ABCDEFGHIJKLMNOPQRSTUVWXYZ"
LowerChars == "abcdefghijklmnopqrstuvwxyz"

\* the character at 1-based position i
CharAt(s, i) == SubSeq(s, i, i)
\* \d
IsDigit(c) == \E i \in 1..10 : CharAt(DigitChars, i) = c
DigitVal(c) == CHOOSE i \in 0..9 : CharAt(DigitChars, i + 1) = c
\* [A-Z]
IsUpper(c) == \E i \in 1..26 : CharAt(UpperChars, i) = c

LowerChar(c) ==
    IF IsUpper(c)
    THEN CharAt(LowerChars, CHOOSE i \in 1..26 : CharAt(UpperChars, i) = c)
    ELSE c

RECURSIVE toLowerCase(_)
\* String.prototype.toLowerCase
toLowerCase(s) ==
    IF s = "" THEN "" ELSE LowerChar(Head(s)) \o toLowerCase(Tail(s))

\* String.prototype.includes
includes(s, sub) ==
    \E i \in 1..(Len(s) - Len(sub) + 1) : SubSeq(s, i, i + Len(sub) - 1) = sub

\* String.prototype.lastIndexOf: 0-based, -1 when sub does not occur
lastIndexOf(s, sub) ==
    LET at == {i \in 1..(Len(s) - Len(sub) + 1) :
                  SubSeq(s, i, i + Len(sub) - 1) = sub}
    IN  IF at = {} THEN 0 - 1
        ELSE (CHOOSE i \in at : \A j \in at : j <= i) - 1

\* the white space and line terminators of the texts used here
WhiteSpaceChars == {" ", "\t", "\n", "\r", "\f"}

RECURSIVE trimStart(_)
trimStart(s) ==
    IF s # "" /\ SubSeq(s, 1, 1) \in WhiteSpaceChars THEN trimStart(Tail(s)) ELSE s

RECURSIVE trimEnd(_)
trimEnd(s) ==
    IF s # "" /\ CharAt(s, Len(s)) \in WhiteSpaceChars
    THEN trimEnd(SubSeq(s, 1, Len(s) - 1))
    ELSE s

\* String.prototype.trim
trim(s) == trimEnd(trimStart(s))

RECURSIVE replaceAll(_, _, _)
\* s.replace(/c/g, to) for a one-character pattern c
replaceAll(s, c, to) ==
    IF s = "" THEN ""
    ELSE (IF Head(s) = c THEN to ELSE Head(s)) \o replaceAll(Tail(s), c, to)

RECURSIVE collapseSpaces(_)
\* s.replace(/\s+/g, ' ')
collapseSpaces(s) ==
    IF s = "" THEN ""
    ELSE IF Head(s) = " " THEN " " \o collapseSpaces(trimStart(s))
    ELSE Head(s) \o collapseSpaces(Tail(s))

RECURSIVE split(_)
\* s.split(/\s+/): the pieces between the runs of whitespace
split(s) ==
    LET sp == {i \in 1..Len(s) : CharAt(s, i) = " "}
    IN  IF sp = {} THEN <<s>>
        ELSE LET i == CHOOSE k \in sp : \A j \in sp : k <= j
             IN  <<SubSeq(s, 1, i - 1)>> \o split(trimStart(SubSeq(s, i, Len(s))))

(* Numbers: parseInt yields a double, which holds every integer up to 2^53 *)
(* and, from 2^53 to 2^54, the even ones                                   *)

\* 2^53, up to which every integer is a double
TwoPow53 == "9007199254740992"

RECURSIVE stripZeros(_)
\* the digits of an integer without its leading zeros
stripZeros(d) ==
    IF Len(d) > 1 /\ Head(d) = "0" THEN stripZeros(Tail(d)) ELSE d

\* a < b, for integers written without leading zeros
NumLess(a, b) ==
    \/ Len(a) < Len(b)
    \/ /\ Len(a) = Len(b)
       /\ \E i \in 1..Len(a) :
             /\ SubSeq(a, 1, i - 1) = SubSeq(b, 1, i - 1)
             /\ DigitVal(CharAt(a, i)) < DigitVal(CharAt(b, i))

RECURSIVE addOne(_)
addOne(d) ==
    IF d = "" THEN "1"
    ELSE LET init == SubSeq(d, 1, Len(d) - 1)
             last == DigitVal(CharAt(d, Len(d)))
         IN  IF last = 9 THEN addOne(init) \o "0"
             ELSE init \o CharAt(DigitChars, last + 2)

\* d - 1, for an odd d
subOne(d) ==
    SubSeq(d, 1, Len(d) - 1) \o CharAt(DigitChars, DigitVal(CharAt(d, Len(d))))

\* d modulo 4, for d of two digits or more
mod4(d) ==
    (10 * DigitVal(CharAt(d, Len(d) - 1)) + DigitVal(CharAt(d, Len(d)))) % 4

\* the double nearest to an integer d of [2^53, 2^54): d when even, else
\* the neighbour with the even significand (round half to even)
roundToDouble(d) ==
    IF DigitVal(CharAt(d, Len(d))) % 2 = 0 THEN d
    ELSE IF mod4(addOne(d)) = 0 THEN addOne(d) ELSE subOne(d)

\* parseInt(digits, 10) for a run of decimal digits.  Exact below 2^54,
\* which covers every run of at most 16 significant digits; longer runs
\* are outside the model
parseInt(digits) ==
    LET d == stripZeros(digits)
    IN  IF ~NumLess(TwoPow53, d) THEN d
        ELSE IF Len(d) = 16 THEN roundToDouble(d)
        ELSE CHOOSE longer \in {} : TRUE

\* a - b as Array.prototype.sort reads it: its sign, NaN (Infinity -
\* Infinity) counting as 0
Minus(a, b) ==
    IF a = Infinity /\ b = Infinity THEN 0
    ELSE IF a = Infinity THEN 1
    ELSE IF b = Infinity THEN 0 - 1
    ELSE IF NumLess(a, b) THEN 0 - 1
    ELSE IF NumLess(b, a) THEN 1
    ELSE 0

(* The regular expression /ABS-(\d+)/i *)

\* the expression matches s at 1-based position i
absAt(s, i) ==
    /\ i + 4 <= Len(s)
    /\ toLowerCase(SubSeq(s, i, i + 3)) = "abs-"
    /\ IsDigit(CharAt(s, i + 4))

\* s.match(/ABS-(\d+)/i): the leftmost match, its digit run taken greedily
absMatch(s) ==
    LET at == {i \in 1..Len(s) : absAt(s, i)}
    IN  IF at = {} THEN NoMatch
        ELSE LET i == CHOOSE k \in at : \A j \in at : k <= j
                 e == CHOOSE k \in (i + 4)..Len(s) :
                        /\ \A j \in (i + 4)..k : IsDigit(CharAt(s, j))
                        /\ (k = Len(s) \/ ~IsDigit(CharAt(s, k + 1)))
             IN  [matched |-> TRUE, index |-> i - 1,
                  digits |-> SubSeq(s, i + 4, e)]

(* abstractIdNormalizer.ts *)

\* a plausible slip: the digit run is kept as written
normalizeAbstractIdKeepZeros(id) ==
    LET match == absMatch(id)
    IN  IF match = NoMatch THEN Null ELSE "ABS-" \o match.digits

normalizeAbstractId(id) ==
    LET match == absMatch(id)
    IN  IF match = NoMatch THEN Null
        ELSE "ABS-" \o parseInt(match.digits)

(* filenameParser.ts *)

stripExtension(filename) ==
    LET lastDotIndex == lastIndexOf(filename, ".")
    IN  IF lastDotIndex < 0 THEN filename
        ELSE SubSeq(filename, 1, lastDotIndex)

\* every word matches /^[A-Z0-9]+$/
isCodePrefix(text) ==
    LET words == split(text)
    IN  \A k \in 1..Len(words) :
           /\ words[k] # ""
           /\ \A i \in 1..Len(words[k]) :
                 IsUpper(CharAt(words[k], i)) \/ IsDigit(CharAt(words[k], i))

\* s.replace(/\s+New\s*$/i, '')
removeTrailingNew(s) ==
    LET t == trimEnd(s)
        n == Len(t)
    IN  IF n >= 4 /\ toLowerCase(SubSeq(t, n - 2, n)) = "new"
                  /\ CharAt(t, n - 3) = " "
        THEN trimEnd(SubSeq(t, 1, n - 3))
        ELSE s

extractAuthor(nameWithoutExt, match) ==
    LET beforeAbs == SubSeq(nameWithoutExt, 1, match.index)
        cleaned == trim(collapseSpaces(
                       replaceAll(replaceAll(beforeAbs, "_", " "), "-", " ")))
        cleaned2 == trim(removeTrailingNew(cleaned))
    IN  IF cleaned2 = "" \/ isCodePrefix(cleaned2) THEN Null ELSE cleaned2

\* a plausible slip: the pattern is looked for in the whole filename
parseFilenameWithExt(filename) ==
    LET match == absMatch(filename)
    IN  IF match = NoMatch
        THEN [abstractId |-> Null, author |-> Null,
              title |-> stripExtension(filename), rawFilename |-> filename]
        ELSE [abstractId |-> "ABS-" \o match.digits,
              author |-> extractAuthor(filename, match),
              title |-> "ABS-" \o match.digits, rawFilename |-> filename]

parseFilename(filename) ==
    LET nameWithoutExt == stripExtension(filename)
        match == absMatch(nameWithoutExt)
    IN  IF match = NoMatch
        THEN [abstractId |-> Null, author |-> Null,
              title |-> nameWithoutExt, rawFilename |-> filename]
        ELSE [abstractId |-> "ABS-" \o match.digits,
              author |-> extractAuthor(nameWithoutExt, match),
              title |-> "ABS-" \o match.digits, rawFilename |-> filename]

----------------------------------------------------------------------------
(* Calls of the utilities: the arguments are drawn at the start, the call  *)
(* returns in one step                                                     *)

\* up to MaxZeros leading zeros are written before an identifier's digits
MaxZeros == 2

RECURSIVE Zeros(_)
Zeros(n) == IF n = 0 THEN "" ELSE "0" \o Zeros(n - 1)

\* spellings of the prefix
AbsTags == {"ABS-", "abs-", "Abs-", "aBs-"}
\* integers, among them 2^53 and its successor
IdNumbers == {"0", "7", "12", "99999", TwoPow53, addOne(TwoPow53)}
\* strings without an ABS-digits substring
NoPatternIds == {"", "ABS-", "AB-12", "12", "ABS 12", "P-7"}

\* an identifier string with the integer it spells (Null: none)
IdInputs ==
    {[id |-> tag \o Zeros(z) \o n, n |-> n] :
        tag \in AbsTags, z \in 0..MaxZeros, n \in IdNumbers}
    \cup {[id |-> s, n |-> Null] : s \in NoPatternIds}

InitNormalize ==
    /\ InitRelay
    /\ InitObjects
    /\ input \in [a : IdInputs, b : IdInputs]
    /\ output = Idle

\* normalizeAbstractId is applied to the two identifiers
CallNormalize ==
    /\ output = Idle
    /\ output' = [a |-> normalizeAbstractId(input.a.id),
                  b |-> normalizeAbstractId(input.b.id)]
    /\ UNCHANGED <<input, relayVars, objectVars>>

SpecNormalize == InitNormalize /\ [][CallNormalize]_vars

\* C17: normalizeAbstractId maps "ABS-" (in any case), any number of
\* leading zeros and the digits of n to "ABS-n" for every n >= 0, maps
\* different integers to different outputs, and returns null for an input
\* without an ABS-digits substring
C17_NormalizeEveryInteger ==
    output # Idle =>
        /\ \A side \in {"a", "b"} :
              output[side] = IF input[side].n = Null THEN Null
                             ELSE "ABS-" \o input[side].n
        /\ (input.a.n # Null /\ input.b.n # Null /\ input.a.n # input.b.n)
              => output.a # output.b

(* parseFilename.  A filename is written prefix, identifier, suffix,       *)
(* extension; only the extension holds dots                                *)

\* texts before the identifier, none with an ABS-digits substring
NamePrefixes == {"", "Dr Bob ", "OSSAP-023-", "John_Smith_New_ ", "abs", "ABS-x "}
\* the identifier as the filename writes it: absent, or a prefix and digits
NameCores ==
    {[text |-> "", digits |-> Null]}
    \cup {[text |-> tag \o Zeros(z) \o n, digits |-> Zeros(z) \o n] :
             tag \in {"ABS-", "abs-"}, z \in 0..MaxZeros, n \in {"5", "76"}}
\* texts after the identifier, one of them with a second identifier
NameSuffixes ==
    {[text |-> "", digits |-> Null], [text |-> "-final", digits |-> Null],
     [text |-> " (1)", digits |-> Null],
     [text |-> "-copy-ABS-20", digits |-> "20"]}
\* the end of the filename: what stripExtension keeps of it and what it drops
NameEnds ==
    {[keep |-> "", drop |-> ""], [keep |-> "", drop |-> ".pdf"],
     [keep |-> ".pptx (1)", drop |-> ".jpg"], [keep |-> "", drop |-> "."],
     [keep |-> "", drop |-> ".ABS-9"]}

\* a filename with its extension-stripped text and the digits of the
\* leftmost identifier of that text (Null: none)
FilenameInputs ==
    {[filename |-> p \o c.text \o x.text \o e.keep \o e.drop,
      stem |-> p \o c.text \o x.text \o e.keep,
      digits |-> IF c.digits # Null THEN c.digits ELSE x.digits,
      later |-> c.digits # Null /\ x.digits # Null] :
        p \in NamePrefixes, c \in NameCores, x \in NameSuffixes, e \in NameEnds}

InitParse ==
    /\ InitRelay
    /\ InitObjects
    /\ input \in FilenameInputs
    /\ output = Idle

\* parseFilename is applied to the filename
CallParse ==
    /\ output = Idle
    /\ output' = parseFilename(input.filename)
    /\ UNCHANGED <<input, relayVars, objectVars>>

SpecParse == InitParse /\ [][CallParse]_vars

----------------------------------------------------------------------------
(* spreadsheetParser: detectColumnMappings *)

\* a header list holds at most MaxHeaders headers
MaxHeaders == 3

\* the canonical fields, in the order of Object.entries(COLUMN_ALIASES)
Fields == <<"abstractId", "title", "author", "description">>

COLUMN_ALIASES ==
    [abstractId |-> <<"abstract", "abs", "id">>,
     title |-> <<"title", "subject", "topic">>,
     author |-> <<"author", "presenter", "name", "speaker">>,
     description |-> <<"description", "summary", "abstract text", "body",
                       "content">>]

\* some alias of the field is a substring of the lowercased, trimmed header
aliasMatches(field, header) ==
    LET lower == trim(toLowerCase(header))
        aliases == COLUMN_ALIASES[field]
    IN  \E k \in 1..Len(aliases) : includes(lower, aliases[k])

\* the mappings object before any header is read: no field has a value
NoMappings == [f \in DOMAIN COLUMN_ALIASES |-> Undefined]

\* a plausible slip: the `already mapped` test is missing
detectStepOverwrite(mappings, header) ==
    [f \in DOMAIN COLUMN_ALIASES |->
        IF aliasMatches(f, header) THEN header ELSE mappings[f]]

\* the body of the loop over the headers, for one header
detectStep(mappings, header) ==
    [f \in DOMAIN COLUMN_ALIASES |->
        IF Truthy(mappings[f]) THEN mappings[f]
        ELSE IF aliasMatches(f, header) THEN header
        ELSE mappings[f]]

RECURSIVE detectFrom(_, _)
detectFrom(mappings, headers) ==
    IF headers = << >> THEN mappings
    ELSE detectFrom(detectStep(mappings, Head(headers)), Tail(headers))

\* a field without a value reads as undefined
detectColumnMappings(headers) == detectFrom(NoMappings, headers)

\* headers of spreadsheets
HeaderPool ==
    {"ID", "Abstract Text", " Topic ", "AUTHOR NAME", "Presenter", "Room",
     "Paid"}

HeaderLists ==
    UNION {[1..n -> HeaderPool] : n \in 0..MaxHeaders}

InitColumns ==
    /\ InitRelay
    /\ InitObjects
    /\ input \in HeaderLists
    /\ output = Idle

\* detectColumnMappings is applied to the header list
CallColumns ==
    /\ output = Idle
    /\ output' = detectColumnMappings(input)
    /\ UNCHANGED <<input, relayVars, objectVars>>

SpecColumns == InitColumns /\ [][CallColumns]_vars

\* the header holds the alias as a substring, letter case ignored
ContainsIgnoringCase(header, alias) ==
    \E i \in 1..(Len(header) - Len(alias) + 1) :
        toLowerCase(SubSeq(header, i, i + Len(alias) - 1)) = alias

\* the positions of the headers that hold an alias of the field
MatchingHeaders(field, headers) ==
    {i \in 1..Len(headers) :
        \E k \in 1..Len(COLUMN_ALIASES[field]) :
            ContainsIgnoringCase(headers[i], COLUMN_ALIASES[field][k])}

\* C19: for each canonical field detectColumnMappings assigns the first
\* header, in header order, that contains one of the field's aliases as a
\* case-insensitive substring (never a later one); a field no header
\* matches stays unassigned
C19_FirstMatchingHeaderWins ==
    output # Idle =>
        \A k \in 1..Len(Fields) :
            LET at == MatchingHeaders(Fields[k], input)
            IN  IF at = {} THEN output[Fields[k]] = Undefined
                ELSE output[Fields[k]] =
                        input[CHOOSE i \in at : \A j \in at : i <= j]

\* a field matched by two different headers got the first of them, and
\* another field stayed unassigned
C19_Witness ==
    /\ output # Idle
    /\ \E k \in 1..Len(Fields) :
          \E i, j \in MatchingHeaders(Fields[k], input) :
              i < j /\ input[i] # input[j] /\ output[Fields[k]] = input[i]
    /\ \E k \in 1..Len(Fields) : output[Fields[k]] = Undefined

----------------------------------------------------------------------------
(* fileTypeMapper and fileSystemManager *)

\* a directory lists at most MaxEntries entries
MaxEntries == 2

\* the only all-lowercase keys a plain object inherits
InheritedKeys == {"constructor", "__proto__"}

extensionMap ==
    [jpg |-> "image", jpeg |-> "image", png |-> "image", pdf |-> "pdf",
     ppt |-> "document", pptx |-> "document"]

\* extensionMap[normalized] ?? null; an inherited key yields the inherited
\* value, which is not a file type
mapExtensionToType(extension) ==
    LET normalized ==
            toLowerCase(IF extension # "" /\ Head(extension) = "."
                        THEN Tail(extension) ELSE extension)
    IN  IF normalized \in DOMAIN extensionMap THEN extensionMap[normalized]
        ELSE IF normalized \in InheritedKeys THEN "inherited"
        ELSE Null

SUPPORTED_EXTENSIONS == {"jpg", "jpeg", "png", "pdf", "ppt", "pptx"}

getExtension(filename) ==
    LET dotIndex == lastIndexOf(filename, ".")
    IN  IF dotIndex = 0 - 1 \/ dotIndex = Len(filename) - 1 THEN ""
        ELSE toLowerCase(SubSeq(filename, dotIndex + 2, Len(filename)))

isSupportedExtension(extension) ==
    toLowerCase(extension) \in SUPPORTED_EXTENSIONS

\* the ScannedFile pushed for a file entry, or none.  The handle of an entry
\* is its place in the tree
scanEntry(entry, handle) ==
    LET ext == getExtension(entry.name)
        fileType == mapExtensionToType(ext)
    IN  IF ~isSupportedExtension(ext) THEN << >>
        ELSE IF ~Truthy(fileType) THEN << >>
        ELSE <<[name |-> entry.name, extension |-> ext,
                fileType |-> fileType, handle |-> handle]>>

RECURSIVE scanDirectoryFlat(_, _, _)
\* a plausible slip: subdirectories are not entered
scanDirectoryFlat(entries, path, i) ==
    IF i > Len(entries) THEN << >>
    ELSE (IF entries[i].kind = "file"
          THEN scanEntry(entries[i], path \o <<i>>)
          ELSE << >>)
         \o scanDirectoryFlat(entries, path, i + 1)

RECURSIVE scanDirectory(_, _, _)
\* the files pushed from entry i of a directory on, in the order of
\* dirHandle.values()
scanDirectory(entries, path, i) ==
    IF i > Len(entries) THEN << >>
    ELSE (IF entries[i].kind = "directory"
          THEN scanDirectory(entries[i].entries, path \o <<i>>, 1)
          ELSE IF entries[i].kind = "file"
          THEN scanEntry(entries[i], path \o <<i>>)
          ELSE << >>)
         \o scanDirectory(entries, path, i + 1)

\* scanFiles() of a manager whose this.directoryHandle is dirHandle
scanFiles(dirHandle) ==
    IF dirHandle = NoDirectory
    THEN [threw |-> "No directory loaded. Call pickDirectory() first."]
    ELSE [files |-> scanDirectory(dirHandle.entries, << >>, 1)]

FileEntry(name) == [kind |-> "file", name |-> name]
DirEntry(name, entries) ==
    [kind |-> "directory", name |-> name, entries |-> entries]

\* file names, each with the extension it was written with
FileNamePool ==
    {[name |-> "a.jpg", ext |-> "jpg"], [name |-> "b.JPEG", ext |-> "JPEG"],
     [name |-> "c.png", ext |-> "png"], [name |-> "ABS-1.pdf", ext |-> "pdf"],
     [name |-> "d.ppt", ext |-> "ppt"], [name |-> "e.PpTx", ext |-> "PpTx"],
     [name |-> "notes.txt", ext |-> "txt"], [name |-> "README", ext |-> ""],
     [name |-> "x.pdf.bak", ext |-> "bak"], [name |-> "pdf.", ext |-> ""]}

\* subdirectories, two of them nested, holding names the root may hold too
SubDirectories ==
    {DirEntry("empty", << >>),
     DirEntry("sub", <<FileEntry("a.jpg")>>),
     DirEntry("mixed", <<FileEntry("notes.txt"), FileEntry("e.PpTx")>>),
     DirEntry("deep", <<DirEntry("sub", <<FileEntry("a.jpg"),
                                          FileEntry("ABS-1.pdf")>>),
                        FileEntry("x.pdf.bak")>>)}

RootEntries == {FileEntry(f.name) : f \in FileNamePool} \cup SubDirectories

DirectoryTrees ==
    {DirEntry("root", es) :
        es \in UNION {[1..n -> RootEntries] : n \in 0..MaxEntries}}

InitScan ==
    /\ InitRelay
    /\ InitObjects
    /\ input \in DirectoryTrees \cup {NoDirectory}
    /\ output = Idle

\* scanFiles runs on the manager's directory handle
CallScan ==
    /\ output = Idle
    /\ output' = scanFiles(input)
    /\ UNCHANGED <<input, relayVars, objectVars>>

SpecScan == InitScan /\ [][CallScan]_vars

RECURSIVE FilePlaces(_, _)
\* the places of the file entries at any depth below a directory
FilePlaces(entries, path) ==
    UNION {IF entries[i].kind = "file" THEN {path \o <<i>>}
           ELSE FilePlaces(entries[i].entries, path \o <<i>>) :
              i \in 1..Len(entries)}

RECURSIVE EntryAt(_, _)
EntryAt(entries, path) ==
    IF Len(path) = 1 THEN entries[path[1]]
    ELSE EntryAt(entries[path[1]].entries, Tail(path))

\* the extension a file name was written with, lowercased
WrittenExtension(name) ==
    toLowerCase((CHOOSE f \in FileNamePool : f.name = name).ext)

\* the file type the extension mapping gives
TypeOfExtension(ext) ==
    IF ext \in {"jpg", "jpeg", "png"} THEN "image"
    ELSE IF ext = "pdf" THEN "pdf"
    ELSE "document"

----------------------------------------------------------------------------
(* abstractListGenerator *)

\* a scan lists at most MaxFiles files
MaxFiles == 2
\* a spreadsheet holds at most MaxRows rows
MaxRows == 2

RECURSIVE IndexString(_)
\* String(n) for an array index
IndexString(n) ==
    IF n < 10 THEN CharAt(DigitChars, n + 1)
    ELSE IndexString(n \div 10) \o CharAt(DigitChars, (n % 10) + 1)

\* row[key]: undefined when the row has no such column
Field(row, key) == IF key \in DOMAIN row THEN row[key] ELSE Undefined

extractNumericId(abstractId) ==
    IF ~Truthy(abstractId) THEN Infinity
    ELSE LET match == absMatch(abstractId)
         IN  IF match = NoMatch THEN Infinity ELSE parseInt(match.digits)

RECURSIVE buildSpreadsheetMap(_, _, _)
\* the lookup map after the rows from row i on are set: a later row with
\* the same normalized id replaces an earlier one
buildSpreadsheetMap(rows, i, map) ==
    IF i > Len(rows) THEN map
    ELSE LET normalized == normalizeAbstractId(rows[i].abstractId)
         IN  buildSpreadsheetMap(rows, i + 1,
                IF Truthy(normalized) THEN (normalized :> rows[i]) @@ map
                ELSE map)

\* the spellings of the registration-id column, in the order they are tried
RegIdKeys ==
    <<"Reg ID", "RegID", "reg id", "regid", "Registration ID",
      "registration id", "Reg No", "reg no">>

RECURSIVE regIdFrom(_, _)
\* row['Reg ID'] || row['RegID'] || ... || ''
regIdFrom(row, k) ==
    IF k > Len(RegIdKeys) THEN ""
    ELSE Or(Field(row, RegIdKeys[k]), regIdFrom(row, k + 1))

\* parsedFilenames[index] ?? parseFilename(file.name), index counted from 0
parsedOf(file, index, parsedFilenames) ==
    IF index + 1 <= Len(parsedFilenames) THEN parsedFilenames[index + 1]
    ELSE parseFilename(file.name)

\* the normalized id of a file
normalizedIdOf(parsed) ==
    IF Truthy(parsed.abstractId) THEN normalizeAbstractId(parsed.abstractId)
    ELSE Null

\* a plausible slip: the filename-derived values are preferred to the row's
fileAbstractFilenameFirst(file, index, parsedFilenames, spreadsheetMap) ==
    LET parsed == parsedOf(file, index, parsedFilenames)
        normalizedId == normalizedIdOf(parsed)
        hasRow == Truthy(normalizedId) /\ normalizedId \in DOMAIN spreadsheetMap
        spreadsheetRow == IF hasRow THEN spreadsheetMap[normalizedId] ELSE << >>
    IN  [id |-> IF Truthy(normalizedId) THEN normalizedId \o "-" \o file.name
                ELSE "file-" \o IndexString(index),
         title |-> Or(Or(parsed.title, Field(spreadsheetRow, "title")), file.name),
         author |-> Or(Or(parsed.author, Field(spreadsheetRow, "author")), "Unknown"),
         description |-> Or(Field(spreadsheetRow, "description"), ""),
         thumbnail |-> "", fileUrl |-> "",
         fileType |-> file.fileType,
         localFileName |-> file.name,
         fileHandle |-> file.handle,
         abstractId |-> Or(Or(normalizedId, parsed.abstractId), Undefined),
         regId |-> Or(regIdFrom(spreadsheetRow, 1), Undefined),
         hasFile |-> TRUE,
         source |-> "local"]

\* the entry scannedFiles.map builds for a file; a file without a row reads
\* every spreadsheetRow?.field as undefined
fileAbstract(file, index, parsedFilenames, spreadsheetMap) ==
    LET parsed == parsedOf(file, index, parsedFilenames)
        normalizedId == normalizedIdOf(parsed)
        hasRow == Truthy(normalizedId) /\ normalizedId \in DOMAIN spreadsheetMap
        spreadsheetRow == IF hasRow THEN spreadsheetMap[normalizedId] ELSE << >>
    IN  [id |-> IF Truthy(normalizedId) THEN normalizedId \o "-" \o file.name
                ELSE "file-" \o IndexString(index),
         title |-> Or(Or(Field(spreadsheetRow, "title"), parsed.title), file.name),
         author |-> Or(Or(Field(spreadsheetRow, "author"), parsed.author), "Unknown"),
         description |-> Or(Field(spreadsheetRow, "description"), ""),
         thumbnail |-> "", fileUrl |-> "",
         fileType |-> file.fileType,
         localFileName |-> file.name,
         fileHandle |-> file.handle,
         abstractId |-> Or(Or(normalizedId, parsed.abstractId), Undefined),
         regId |-> Or(regIdFrom(spreadsheetRow, 1), Undefined),
         hasFile |-> TRUE,
         source |-> "local"]

\* matchedSpreadsheetIds once every file is mapped
matchedIds(scannedFiles, parsedFilenames, spreadsheetMap) ==
    {id \in {normalizedIdOf(parsedOf(scannedFiles[i], i - 1, parsedFilenames)) :
                i \in 1..Len(scannedFiles)} :
        Truthy(id) /\ id \in DOMAIN spreadsheetMap}

\* the entry pushed for a row no file matched
rowAbstract(row, normalized) ==
    [id |-> normalized,
     title |-> Or(row.title, row.abstractId),
     author |-> Or(row.author, "Unknown"),
     description |-> Or(row.description, ""),
     thumbnail |-> "", fileUrl |-> "",
     fileType |-> "document",
     abstractId |-> normalized,
     regId |-> Or(regIdFrom(row, 1), Undefined),
     hasFile |-> FALSE,
     source |-> "local"]

RECURSIVE rowAbstractsAll(_, _, _)
\* a plausible slip: rows are pushed whether or not a file matched them
rowAbstractsAll(rows, i, matched) ==
    IF i > Len(rows) THEN << >>
    ELSE LET normalized == normalizeAbstractId(rows[i].abstractId)
         IN  (IF Truthy(normalized)
              THEN <<rowAbstract(rows[i], normalized)>>
              ELSE << >>)
             \o rowAbstractsAll(rows, i + 1, matched)

RECURSIVE rowAbstracts(_, _, _)
\* the entries pushed by the loop over the rows, from row i on
rowAbstracts(rows, i, matched) ==
    IF i > Len(rows) THEN << >>
    ELSE LET normalized == normalizeAbstractId(rows[i].abstractId)
         IN  (IF Truthy(normalized) /\ normalized \notin matched
              THEN <<rowAbstract(rows[i], normalized)>>
              ELSE << >>)
             \o rowAbstracts(rows, i + 1, matched)

\* the comparator of abstracts.sort
compareAbstracts(a, b) ==
    Minus(extractNumericId(a.abstractId), extractNumericId(b.abstractId))

\* a placed before the first entry that compares greater than it
insertSorted(sorted, a) ==
    LET after == {k \in 1..Len(sorted) : compareAbstracts(sorted[k], a) > 0}
        at == IF after = {} THEN Len(sorted) + 1
              ELSE CHOOSE k \in after : \A j \in after : k <= j
    IN  SubSeq(sorted, 1, at - 1) \o <<a>> \o SubSeq(sorted, at, Len(sorted))

\* a plausible slip: the list is returned in the order it was built
sortFromUnsorted(abstracts, i, sorted) == abstracts

RECURSIVE sortFrom(_, _, _)
\* Array.prototype.sort with compareAbstracts: the sort is stable, so the
\* result is the one of inserting the entries in turn
sortFrom(abstracts, i, sorted) ==
    IF i > Len(abstracts) THEN sorted
    ELSE sortFrom(abstracts, i + 1, insertSorted(sorted, abstracts[i]))

generateAbstractList(scannedFiles, spreadsheetRows, parsedFilenames) ==
    LET rows == IF spreadsheetRows = NoSpreadsheet THEN << >>
                ELSE spreadsheetRows.rows
        spreadsheetMap == buildSpreadsheetMap(rows, 1, << >>)
        fromFiles == [i \in 1..Len(scannedFiles) |->
                        fileAbstract(scannedFiles[i], i - 1, parsedFilenames,
                                     spreadsheetMap)]
        matched == matchedIds(scannedFiles, parsedFilenames, spreadsheetMap)
    IN  sortFrom(fromFiles \o rowAbstracts(rows, 1, matched), 1, << >>)

\* a ScannedFile, as scanFiles pushes it
ScannedFile(name, handle) ==
    [name |-> name, extension |-> getExtension(name),
     fileType |-> mapExtensionToType(getExtension(name)), handle |-> handle]

\* scanned files: two with the id 5 under different spellings, one name
\* found in two directories, two without an id
ScannedFilePool ==
    {ScannedFile("Dr Bob ABS-0005.pdf", <<1>>),
     ScannedFile("ABS-5.jpg", <<2>>),
     ScannedFile("ABS-5.jpg", <<3, 1>>),
     ScannedFile("poster.png", <<4>>),
     ScannedFile(".jpg", <<5>>)}

Row(abstractId, title, author, description) ==
    [abstractId |-> abstractId, title |-> title, author |-> author,
     description |-> description]

\* spreadsheet rows: two with the id 5, one of them with empty fields, a
\* row no file matches, a row whose id has no ABS-digits substring
RowPool ==
    {Row("ABS-05", "T5", "A5", "D5") @@ ("Reg ID" :> "R5"),
     Row("ABS-5", "", "", ""),
     Row("ABS-12", "", "", "D12"),
     Row("P-12", "TP", "AP", "")}

\* the lists without repetition of at most n members of a set
ListsOf(S, n) ==
    {l \in UNION {[1..k -> S] : k \in 0..n} :
        \A i, j \in 1..Len(l) : i # j => l[i] # l[j]}

\* the arguments of generateAbstractList: a scan, the rows of a spreadsheet
\* (null: none loaded), and the parsed filenames, given for every file or
\* left to the function
MergeInputs ==
    {[scannedFiles |-> fs,
      spreadsheetRows |-> IF loaded THEN Loaded(rs) ELSE NoSpreadsheet,
      parsedFilenames |-> IF given
                          THEN [i \in 1..Len(fs) |-> parseFilename(fs[i].name)]
                          ELSE << >>] :
        fs \in ListsOf(ScannedFilePool, MaxFiles),
        rs \in ListsOf(RowPool, MaxRows),
        loaded \in BOOLEAN,
        given \in BOOLEAN}

InitMerge ==
    /\ InitRelay
    /\ InitObjects
    /\ input \in MergeInputs
    /\ output = Idle

\* generateAbstractList is applied to the arguments
CallMerge ==
    /\ output = Idle
    /\ output' = [abstracts |->
                    generateAbstractList(input.scannedFiles,
                                         input.spreadsheetRows,
                                         input.parsedFilenames)]
    /\ UNCHANGED <<input, relayVars, objectVars>>

SpecMerge == InitMerge /\ [][CallMerge]_vars

(* What the names and ids of the pools spell, written out by hand *)

\* the integer a row's id spells (Null: the id has no ABS-digits part)
RowNumber(row) ==
    CASE row.abstractId = "ABS-05" -> "5"
      [] row.abstractId = "ABS-5" -> "5"
      [] row.abstractId = "ABS-12" -> "12"
      [] row.abstractId = "P-12" -> Null

\* what the name of a scanned file spells: the id as written, its integer,
\* the author, and the name without its extension
Spelled(name) ==
    CASE name = "Dr Bob ABS-0005.pdf" ->
            [id |-> "ABS-0005", number |-> "5", author |-> "Dr Bob",
             stem |-> "Dr Bob ABS-0005"]
      [] name = "ABS-5.jpg" ->
            [id |-> "ABS-5", number |-> "5", author |-> Null, stem |-> "ABS-5"]
      [] name = "poster.png" ->
            [id |-> Null, number |-> Null, author |-> Null, stem |-> "poster"]
      [] name = ".jpg" ->
            [id |-> Null, number |-> Null, author |-> Null, stem |-> ""]

\* the rows given to the call (none when no spreadsheet is loaded)
InputRows ==
    IF input.spreadsheetRows = NoSpreadsheet THEN << >>
    ELSE input.spreadsheetRows.rows

\* the positions of the rows whose id spells the integer of some file's id
RowsMatchedByAFile ==
    {i \in 1..Len(InputRows) :
        /\ RowNumber(InputRows[i]) # Null
        /\ \E j \in 1..Len(input.scannedFiles) :
              Spelled(input.scannedFiles[j].name).number = RowNumber(InputRows[i])}

\* the positions of the returned entries with the given hasFile
EntriesWithFile(hasFile) ==
    {k \in 1..Len(output.abstracts) : output.abstracts[k].hasFile = hasFile}

\* C11: for F scanned files and S spreadsheet rows, m of which have an id
\* matched by at least one file, generateAbstractList returns exactly
\* F + (S - m) entries: F with hasFile=true and S - m with hasFile=false
C11_MergeCounts ==
    output # Idle =>
        LET F == Len(input.scannedFiles)
            S == Len(InputRows)
            m == Cardinality(RowsMatchedByAFile)
        IN  /\ Len(output.abstracts) = F + (S - m)
            /\ Cardinality(EntriesWithFile(TRUE)) = F
            /\ Cardinality(EntriesWithFile(FALSE)) = S - m

\* the integer an entry's abstractId holds after "ABS-" (Null: none)
EntryNumber(entry) ==
    IF "abstractId" \notin DOMAIN entry THEN Null
    ELSE LET match == absMatch(entry.abstractId)
         IN  IF match = NoMatch THEN Null ELSE stripZeros(match.digits)

\* C12: in every list generateAbstractList returns, the entries are in
\* non-decreasing order of the integer embedded in abstractId, and every
\* entry without such an integer comes after every entry that has one
C12_SortedByNumericId ==
    output # Idle =>
        \A i, j \in 1..Len(output.abstracts) :
            (i < j /\ EntryNumber(output.abstracts[j]) # Null) =>
                /\ EntryNumber(output.abstracts[i]) # Null
                /\ ~NumLess(EntryNumber(output.abstracts[j]),
                            EntryNumber(output.abstracts[i]))

\* a list was returned in which a row's entry (12) stands between a file
\* with a smaller id (5) and a file without an id that was scanned first
C12_Witness ==
    /\ output # Idle
    /\ Len(input.scannedFiles) >= 2
    /\ Spelled(input.scannedFiles[1].name).number = Null
    /\ \E i, j, k \in 1..Len(output.abstracts) :
          /\ i < j /\ j < k
          /\ EntryNumber(output.abstracts[i]) = "5"
          /\ EntryNumber(output.abstracts[j]) = "12"
          /\ ~output.abstracts[j].hasFile
          /\ EntryNumber(output.abstracts[k]) = Null

\* the digits of an id as it is written
WrittenDigits(id) == SubSeq(id, 5, Len(id))

\* file j and row i spell the same integer with different leading zeros
JoinedByNumber(j, i) ==
    LET spelled == Spelled(input.scannedFiles[j].name)
    IN  /\ spelled.number # Null
        /\ spelled.number = RowNumber(InputRows[i])
        /\ WrittenDigits(spelled.id) # WrittenDigits(InputRows[i].abstractId)

\* the returned entries backed by file j
EntriesOfFile(j) ==
    {k \in 1..Len(output.abstracts) :
        /\ output.abstracts[k].hasFile
        /\ output.abstracts[k].fileHandle = input.scannedFiles[j].handle}

\* file j's entry is the only one for it and carries the non-empty title,
\* author and description of row i, and row i has no entry of its own
CarriesRow(j, i) ==
    /\ Cardinality(EntriesOfFile(j)) = 1
    /\ \A k \in EntriesOfFile(j) :
          \A f \in {"title", "author", "description"} :
              InputRows[i][f] # "" => output.abstracts[k][f] = InputRows[i][f]
    /\ \A k \in EntriesWithFile(FALSE) :
          EntryNumber(output.abstracts[k]) # RowNumber(InputRows[i])

\* C13 as claimed: a scanned file and a spreadsheet row whose ids denote
\* the same integer but differ in leading zeros are joined: one file-backed
\* entry carries the row's non-empty title, author and description, and
\* the row gets no hasFile=false entry
C13_LeadingZeroJoin ==
    output # Idle =>
        \A j \in 1..Len(input.scannedFiles), i \in 1..Len(InputRows) :
            JoinedByNumber(j, i) => CarriesRow(j, i)

\* no later row spells the integer of row i
LastRowOfItsNumber(i) ==
    \A l \in 1..Len(InputRows) :
        l > i => RowNumber(InputRows[l]) # RowNumber(InputRows[i])

\* C13, amended: as claimed, for the row that is the last one of the
\* spreadsheet with its integer
C13_LeadingZeroJoinOfLastRow ==
    output # Idle =>
        \A j \in 1..Len(input.scannedFiles), i \in 1..Len(InputRows) :
            (JoinedByNumber(j, i) /\ LastRowOfItsNumber(i)) => CarriesRow(j, i)

\* the file ABS-0005 was joined with the row ABS-05 and shows its title
C13_Witness ==
    /\ output # Idle
    /\ \E j \in 1..Len(input.scannedFiles), i \in 1..Len(InputRows) :
          /\ JoinedByNumber(j, i)
          /\ LastRowOfItsNumber(i)
          /\ InputRows[i].title # ""
          /\ \E k \in EntriesOfFile(j) :
                output.abstracts[k].title = InputRows[i].title

\* the positions of the rows that spell the integer of file j's id
RowsOfFile(j) ==
    {i \in 1..Len(InputRows) :
        /\ RowNumber(InputRows[i]) # Null
        /\ RowNumber(InputRows[i]) = Spelled(input.scannedFiles[j].name).number}

\* the value of a field of the row matched to file j ("" without a row)
MatchedRowField(j, f) ==
    IF RowsOfFile(j) = {} THEN ""
    ELSE InputRows[CHOOSE i \in RowsOfFile(j) : \A l \in RowsOfFile(j) : l <= i][f]

\* the first of the values that is not empty or null
FirstGiven(values) ==
    values[CHOOSE k \in 1..Len(values) :
              /\ values[k] \notin {"", Null}
              /\ \A l \in 1..(k - 1) : values[l] \in {"", Null}]

\* the title a filename yields: the id as written, or the bare name
DerivedTitle(name) ==
    IF Spelled(name).id # Null THEN Spelled(name).id ELSE Spelled(name).stem

\* C14: for every file-backed entry, title and author are the matched
\* row's field when it is non-empty, otherwise the filename-derived value,
\* otherwise the default (the raw filename, "Unknown"); description is the
\* row's when non-empty and "" otherwise; a file without a matching row
\* receives no spreadsheet value
C14_FileEntryMetadata ==
    output # Idle =>
        \A j \in 1..Len(input.scannedFiles) :
            LET name == input.scannedFiles[j].name
            IN  /\ Cardinality(EntriesOfFile(j)) = 1
                /\ \A k \in EntriesOfFile(j) :
                      LET entry == output.abstracts[k]
                      IN  /\ entry.title =
                                FirstGiven(<<MatchedRowField(j, "title"),
                                             DerivedTitle(name), name>>)
                          /\ entry.author =
                                FirstGiven(<<MatchedRowField(j, "author"),
                                             Spelled(name).author, "Unknown">>)
                          /\ entry.description = MatchedRowField(j, "description")
                          /\ RowsOfFile(j) = {} => entry.regId = Undefined

\* a matched file whose row's author is empty shows the filename's author,
\* next to a file without id or row that shows its raw name as title
C14_Witness ==
    /\ output # Idle
    /\ \E j \in 1..Len(input.scannedFiles) :
          /\ RowsOfFile(j) # {}
          /\ MatchedRowField(j, "author") = ""
          /\ \E k \in EntriesOfFile(j) : output.abstracts[k].author = "Dr Bob"
    /\ \E j \in 1..Len(input.scannedFiles) :
          /\ RowsOfFile(j) = {}
          /\ \E k \in EntriesOfFile(j) : output.abstracts[k].title = ".jpg"

\* the positions of the rows no file claimed
UnclaimedRows == (1..Len(InputRows)) \ RowsMatchedByAFile

\* the entry a row without a file is to produce
FilelessEntryOf(row, entry) ==
    /\ ~entry.hasFile
    /\ entry.fileType = "document"
    /\ entry.title = FirstGiven(<<row.title, row.abstractId>>)
    /\ entry.author = FirstGiven(<<row.author, "Unknown">>)

\* C15: every spreadsheet row that no scanned file claimed produces exactly
\* one entry with hasFile=false and fileType "document", with the row's
\* title or else its id and the row's author or else "Unknown"; an absent
\* or empty spreadsheet gives no hasFile=false entry, and with no file
\* either the result is empty
C15_UnclaimedRowsGetEntries ==
    output # Idle =>
        /\ Cardinality(EntriesWithFile(FALSE)) = Cardinality(UnclaimedRows)
        /\ \A i \in UnclaimedRows :
              \E k \in EntriesWithFile(FALSE) :
                  FilelessEntryOf(InputRows[i], output.abstracts[k])
        /\ InputRows = << >> => EntriesWithFile(FALSE) = {}
        /\ (InputRows = << >> /\ input.scannedFiles = << >>)
              => output.abstracts = << >>

\* C16: in every list generateAbstractList returns the id fields of the
\* entries are pairwise distinct, also when several files carry the same
\* abstract id, when files of different subdirectories share a filename
\* and when several rows normalize to the same id
C16_EntryIdsDistinct ==
    output # Idle =>
        \A i, j \in 1..Len(output.abstracts) :
            i # j => output.abstracts[i].id # output.abstracts[j].id

----------------------------------------------------------------------------
(* FileSystemManager as an object: the calls made on one manager *)

\* at most MaxCalls calls are made on the manager
MaxCalls == 3

NoDirectoryLoaded == "No directory loaded. Call pickDirectory() first."

\* the rejection of showDirectoryPicker() when the user dismisses the picker
AbortError == [error |-> "DOMException", name |-> "AbortError"]

\* the directories the user may pick
PickedTrees ==
    {DirEntry("root", << >>),
     DirEntry("root", <<FileEntry("notes.txt"),
                        DirEntry("sub", <<FileEntry("a.jpg")>>)>>)}

\* what window.showDirectoryPicker() does: it resolves with the picked
\* handle, or rejects with the user's dismissal or with another error
PickerOutcomes ==
    {[resolved |-> t] : t \in PickedTrees}
        \cup {AbortError,
              [error |-> "DOMException", name |-> "SecurityError"],
              [error |-> "Error", name |-> "AbortError"]}

\* a pickDirectory that forgets the loaded directory when the user declines
pickDirectoryForgetting(dirHandle, outcome) ==
    IF "resolved" \in DOMAIN outcome
    THEN [directoryHandle |-> outcome.resolved, result |-> [returned |-> TRUE]]
    ELSE IF outcome.error = "DOMException" /\ outcome.name = "AbortError"
    THEN [directoryHandle |-> NoDirectory, result |-> [returned |-> FALSE]]
    ELSE [directoryHandle |-> dirHandle, result |-> [threw |-> outcome]]

\* pickDirectory() on a manager whose this.directoryHandle is dirHandle: the
\* field after the call and what the call returned or threw
pickDirectory(dirHandle, outcome) ==
    IF "resolved" \in DOMAIN outcome
    THEN [directoryHandle |-> outcome.resolved, result |-> [returned |-> TRUE]]
    ELSE IF outcome.error = "DOMException" /\ outcome.name = "AbortError"
    THEN [directoryHandle |-> dirHandle, result |-> [returned |-> FALSE]]
    ELSE [directoryHandle |-> dirHandle, result |-> [threw |-> outcome]]

NotFound == [found |-> FALSE]

RECURSIVE findFile(_, _, _, _)
\* the first file entry named fileName from entry i of a directory on, in
\* the order of dirHandle.values(), subdirectories entered where they stand
findFile(entries, path, i, fileName) ==
    IF i > Len(entries) THEN NotFound
    ELSE IF entries[i].kind = "file" /\ entries[i].name = fileName
    THEN [found |-> TRUE, handle |-> path \o <<i>>]
    ELSE LET found == IF entries[i].kind = "directory"
                      THEN findFile(entries[i].entries, path \o <<i>>, 1, fileName)
                      ELSE NotFound
         IN  IF found.found THEN found
             ELSE findFile(entries, path, i + 1, fileName)

\* getFileObjectUrl(fileName) on a manager whose this.directoryHandle is
\* dirHandle; the object URL is identified with the file it was made from
getFileObjectUrl(dirHandle, fileName) ==
    IF dirHandle = NoDirectory
    THEN [threw |-> NoDirectoryLoaded]
    ELSE LET fileHandle == findFile(dirHandle.entries, << >>, 1, fileName)
         IN  IF ~fileHandle.found
             THEN [threw |-> "File not found: " \o fileName]
             ELSE [url |-> fileHandle.handle]

\* the names asked of getFileObjectUrl
UrlNames == {"a.jpg", "missing.png"}

\* a manager just constructed, no call made yet
InitManager ==
    /\ InitRelay
    /\ InitObjects
    /\ input = Idle
    /\ output = [calls |-> << >>]

\* the call, with the field before and after it and its result, joins the
\* record of the calls made
Logged(call, after, result) ==
    /\ Len(output.calls) < MaxCalls
    /\ directoryHandle' = after
    /\ output' = [calls |-> Append(output.calls,
                                   [call |-> call, before |-> directoryHandle,
                                    after |-> after, result |-> result])]
    /\ UNCHANGED <<input, relayVars, localStorage, provider, loads, wsVars>>

CallPickDirectory ==
    \E outcome \in PickerOutcomes :
        LET r == pickDirectory(directoryHandle, outcome)
        IN  Logged([name |-> "pickDirectory", picker |-> outcome],
                   r.directoryHandle, r.result)

CallScanFiles ==
    Logged([name |-> "scanFiles"], directoryHandle, scanFiles(directoryHandle))

CallGetFileObjectUrl ==
    \E fileName \in UrlNames :
        Logged([name |-> "getFileObjectUrl", fileName |-> fileName],
               directoryHandle, getFileObjectUrl(directoryHandle, fileName))

NextManager ==
    \/ CallPickDirectory
    \/ CallScanFiles
    \/ CallGetFileObjectUrl

SpecManager == InitManager /\ [][NextManager]_vars

\* one of the first n calls was a pickDirectory that returned true
PickedWithin(n) ==
    \E j \in 1..n :
        /\ output.calls[j].call.name = "pickDirectory"
        /\ output.calls[j].result = [returned |-> TRUE]

\* C21: scanFiles and getFileObjectUrl fail with "No directory loaded"
\* exactly until some pickDirectory call has returned true; a pickDirectory
\* the user declines returns false, throws nothing and leaves the loaded
\* directory as it was; any other failure of the picker is rethrown.
C21_NoDirectoryUntilPicked ==
    \A i \in 1..Len(output.calls) :
        LET c == output.calls[i] IN
        /\ c.call.name \in {"scanFiles", "getFileObjectUrl"} =>
              (c.result = [threw |-> NoDirectoryLoaded]) = ~PickedWithin(i - 1)
        /\ (c.call.name = "pickDirectory" /\ c.call.picker = AbortError) =>
              /\ c.result = [returned |-> FALSE]
              /\ c.after = c.before
        /\ ( /\ c.call.name = "pickDirectory"
             /\ "resolved" \notin DOMAIN c.call.picker
             /\ c.call.picker # AbortError )
           => c.result = [threw |-> c.call.picker]

\* a scan failed, the user then declined the picker, and a lookup failed as
\* the scan had
C21_Witness ==
    /\ Len(output.calls) = 3
    /\ output.calls[1].call.name = "scanFiles"
    /\ output.calls[1].result = [threw |-> NoDirectoryLoaded]
    /\ output.calls[2].call.name = "pickDirectory"
    /\ output.calls[2].result = [returned |-> FALSE]
    /\ output.calls[3].call.name = "getFileObjectUrl"
    /\ output.calls[3].result = [threw |-> NoDirectoryLoaded]

----------------------------------------------------------------------------
(* interactionStore: reactions, comments and likes kept in localStorage.  *)
(* A counter is the decimal string of its number.  A stored item is the    *)
(* text JSON.stringify wrote for a value ([json |-> value]) or another     *)
(* text ([text |-> ...]).                                                  *)

\* at most MaxStoreCalls calls are made on storage that started empty
MaxStoreCalls == 3
\* at most MaxRecoveryCalls calls are made on storage that held anything
MaxRecoveryCalls == 1

\* the reaction emoji, by code point: thumbs up, heart
Emojis == {"U+1F44D", "U+2764"}

NaN == "NaN"

\* reactions: {} is the object in which every emoji is undefined
defaultInteractions(abstractId) ==
    [abstractId |-> abstractId,
     reactions |-> [e \in Emojis |-> Undefined],
     comments |-> << >>,
     likes |-> "0"]

\* data[field]: undefined when the object has no such property
Property(data, field) ==
    IF field \in DOMAIN data THEN data[field] ELSE Undefined

\* JSON.parse of a stored text: the value, or a SyntaxError
JSONparse(raw) ==
    IF "json" \in DOMAIN raw THEN [ok |-> TRUE, value |-> raw.json]
    ELSE CASE raw.text = "null" -> [ok |-> TRUE, value |-> [primitive |-> Null]]
           [] raw.text = "42" -> [ok |-> TRUE, value |-> [primitive |-> "42"]]
           [] raw.text = "{}" -> [ok |-> TRUE, value |-> << >>]
           [] raw.text = "[]" -> [ok |-> TRUE, value |-> [isArray |-> TRUE]]
           [] OTHER -> [ok |-> FALSE]

\* JSON.stringify: NaN is written as null, an array is written without the
\* properties set on it
JSONstringify(data) ==
    IF "isArray" \in DOMAIN data THEN [text |-> "[]"]
    ELSE [json |-> [f \in DOMAIN data |->
                       IF f = "likes" /\ data[f] = NaN THEN Null ELSE data[f]]]

\* the assignment parsed.abstractId = abstractId throws on null and, the
\* module being strict code, on any other primitive; the catch returns the
\* default
readFromStorage(storage, abstractId) ==
    LET raw == storage[storageKey(abstractId)]
    IN  IF raw = NoItem \/ raw = [text |-> ""]
        THEN defaultInteractions(abstractId)
        ELSE LET parsed == JSONparse(raw)
             IN  IF ~parsed.ok THEN defaultInteractions(abstractId)
                 ELSE IF "primitive" \in DOMAIN parsed.value
                 THEN defaultInteractions(abstractId)
                 ELSE ("abstractId" :> abstractId) @@ parsed.value

writeToStorage(storage, interactions) ==
    [storage EXCEPT ![storageKey(interactions.abstractId)] =
                        JSONstringify(interactions)]

\* x + 1 for a counter x as read back from storage
PlusOne(x) ==
    CASE x = Undefined -> NaN
      [] x = NaN -> NaN
      [] x = Null -> "1"
      [] OTHER -> addOne(x)

RECURSIVE insertNewestFirst(_, _)
\* c placed after the comments that are not older than it
insertNewestFirst(sorted, c) ==
    IF sorted = << >> THEN <<c>>
    ELSE IF Head(sorted).timestamp >= c.timestamp
    THEN <<Head(sorted)>> \o insertNewestFirst(Tail(sorted), c)
    ELSE <<c>> \o sorted

RECURSIVE sortNewestFirst(_)
\* comments.sort((a, b) => b.timestamp - a.timestamp), a stable sort
sortNewestFirst(comments) ==
    IF comments = << >> THEN << >>
    ELSE insertNewestFirst(
            sortNewestFirst(SubSeq(comments, 1, Len(comments) - 1)),
            comments[Len(comments)])

TypeError == [threw |-> "TypeError"]

\* each function below yields the storage after the call and what the call
\* returned or threw

getInteractions(storage, abstractId) ==
    LET data == readFromStorage(storage, abstractId)
    IN  [localStorage |-> storage,
         result |-> IF "comments" \notin DOMAIN data THEN TypeError
                    ELSE [returned |->
                            [data EXCEPT !.comments = sortNewestFirst(@)]]]

\* an addReaction that starts every count again from 1
addReactionFromOne(storage, abstractId, emoji) ==
    LET data == readFromStorage(storage, abstractId)
    IN  IF "reactions" \notin DOMAIN data
        THEN [localStorage |-> storage, result |-> TypeError]
        ELSE [localStorage |->
                writeToStorage(storage, [data EXCEPT !.reactions[emoji] = "1"]),
              result |-> [returned |-> Undefined]]

addReaction(storage, abstractId, emoji) ==
    LET data == readFromStorage(storage, abstractId)
    IN  IF "reactions" \notin DOMAIN data
        THEN [localStorage |-> storage, result |-> TypeError]
        ELSE LET count == data.reactions[emoji]
                 next == addOne(IF count \in {Undefined, Null, NaN, "0"}
                                THEN "0" ELSE count)
             IN  [localStorage |->
                    writeToStorage(storage,
                                   [data EXCEPT !.reactions[emoji] = next]),
                  result |-> [returned |-> Undefined]]

\* an addComment that rejects the empty text only
addCommentUntrimmed(storage, abstractId, text, timestamp) ==
    IF text = ""
    THEN [localStorage |-> storage, result |-> [returned |-> FALSE]]
    ELSE LET data == readFromStorage(storage, abstractId)
         IN  IF "comments" \notin DOMAIN data
             THEN [localStorage |-> storage, result |-> TypeError]
             ELSE [localStorage |->
                     writeToStorage(storage,
                        [data EXCEPT !.comments =
                            Append(@, [text |-> text, timestamp |-> timestamp])]),
                   result |-> [returned |-> TRUE]]

\* timestamp is what Date.now() returns during the call
addComment(storage, abstractId, text, timestamp) ==
    IF text = "" \/ Len(trim(text)) = 0
    THEN [localStorage |-> storage, result |-> [returned |-> FALSE]]
    ELSE LET data == readFromStorage(storage, abstractId)
         IN  IF "comments" \notin DOMAIN data
             THEN [localStorage |-> storage, result |-> TypeError]
             ELSE [localStorage |->
                     writeToStorage(storage,
                        [data EXCEPT !.comments =
                            Append(@, [text |-> text, timestamp |-> timestamp])]),
                   result |-> [returned |-> TRUE]]

addLike(storage, abstractId) ==
    LET data == readFromStorage(storage, abstractId)
        liked == ("likes" :> PlusOne(Property(data, "likes"))) @@ data
    IN  [localStorage |-> writeToStorage(storage, liked),
         result |-> [returned |-> Undefined]]

\* the comment texts submitted, and the clock readings
CommentTexts == {"", " \t\n ", "Nice"}
Timestamps == {1, 2}

\* the calls that can be made on the store
StoreCalls ==
    [name : {"getInteractions", "addLike"}, abstractId : PosterIds]
        \cup [name : {"addReaction"}, abstractId : PosterIds, emoji : Emojis]
        \cup [name : {"addComment"}, abstractId : PosterIds,
              text : CommentTexts, timestamp : Timestamps]

\* the call made on the given storage
Perform(call, storage) ==
    CASE call.name = "getInteractions" -> getInteractions(storage, call.abstractId)
      [] call.name = "addLike" -> addLike(storage, call.abstractId)
      [] call.name = "addReaction" ->
            addReaction(storage, call.abstractId, call.emoji)
      [] call.name = "addComment" ->
            addComment(storage, call.abstractId, call.text, call.timestamp)

\* the call runs on localStorage and joins the record of the calls made,
\* with the storage before and after it and its result
StoreCall(call, limit) ==
    LET r == Perform(call, localStorage) IN
    /\ Len(output.calls) < limit
    /\ localStorage' = r.localStorage
    /\ output' = [calls |-> Append(output.calls,
                                   [call |-> call, before |-> localStorage,
                                    after |-> r.localStorage,
                                    result |-> r.result])]
    /\ UNCHANGED <<input, relayVars, directoryHandle, provider, loads, wsVars>>

CallGetInteractions(limit) ==
    \E call \in StoreCalls : call.name = "getInteractions" /\ StoreCall(call, limit)
CallAddReaction(limit) ==
    \E call \in StoreCalls : call.name = "addReaction" /\ StoreCall(call, limit)
CallAddComment(limit) ==
    \E call \in StoreCalls : call.name = "addComment" /\ StoreCall(call, limit)
CallAddLike(limit) ==
    \E call \in StoreCalls : call.name = "addLike" /\ StoreCall(call, limit)

\* storage that starts empty
InitStore ==
    /\ InitRelay
    /\ InitObjects
    /\ input = Idle
    /\ output = [calls |-> << >>]

NextStore ==
    \/ CallGetInteractions(MaxStoreCalls)
    \/ CallAddReaction(MaxStoreCalls)
    \/ CallAddComment(MaxStoreCalls)
    \/ CallAddLike(MaxStoreCalls)

SpecStore == InitStore /\ [][NextStore]_vars

\* how many of the calls made so far equal the given call
CallsMade(call) ==
    Cardinality({i \in 1..Len(output.calls) : output.calls[i].call = call})

\* the count the stored record of a poster holds for an emoji, and its likes
StoredReactions(p, e) ==
    LET raw == localStorage[storageKey(p)]
    IN  IF raw = NoItem \/ raw.json.reactions[e] = Undefined THEN "0"
        ELSE raw.json.reactions[e]

StoredLikes(p) ==
    LET raw == localStorage[storageKey(p)]
    IN  IF raw = NoItem THEN "0" ELSE raw.json.likes

\* C22: starting from empty storage, after any sequence of addReaction and
\* addLike calls (and of the other calls of the store), for every poster
\* the stored count of each emoji is the number of addReaction calls made
\* for that poster with that emoji, and the stored likes are the number of
\* addLike calls made for that poster.
C22_CountersCountCalls ==
    \A p \in PosterIds :
        /\ \A e \in Emojis :
              StoredReactions(p, e) =
                 IndexString(CallsMade([name |-> "addReaction",
                                        abstractId |-> p, emoji |-> e]))
        /\ StoredLikes(p) =
              IndexString(CallsMade([name |-> "addLike", abstractId |-> p]))

\* one poster got the same reaction twice and another poster a like
C22_Witness ==
    \E p, q \in PosterIds, e, f \in Emojis :
        /\ p # q /\ e # f
        /\ StoredReactions(p, e) = "2"
        /\ StoredReactions(p, f) = "0"
        /\ StoredLikes(q) = "1"
        /\ StoredLikes(p) = "0"

\* what a key of localStorage may hold before the store is used: nothing, a
\* text JSON.parse rejects or turns into something else than an interactions
\* record, or a record written earlier
StoredItems ==
    {NoItem, [text |-> ""], [text |-> "{bad"], [text |-> "null"],
     [text |-> "42"], [text |-> "{}"], [text |-> "[]"],
     [json |-> [abstractId |-> "ABS-1",
                reactions |-> [e \in Emojis |->
                                  IF e = "U+2764" THEN "3" ELSE Undefined],
                comments |-> <<[text |-> "First", timestamp |-> 1],
                               [text |-> "Second", timestamp |-> 2]>>,
                likes |-> "2"]]}

\* storage that holds anything when the store is first used
InitStorage ==
    /\ InitRelay
    /\ directoryHandle = NoDirectory
    /\ InitProvider
    /\ InitServer
    /\ localStorage \in [StorageKeys -> StoredItems]
    /\ input = Idle
    /\ output = [calls |-> << >>]

NextStorage ==
    \/ CallGetInteractions(MaxRecoveryCalls)
    \/ CallAddReaction(MaxRecoveryCalls)
    \/ CallAddComment(MaxRecoveryCalls)
    \/ CallAddLike(MaxRecoveryCalls)

SpecStorage == InitStorage /\ [][NextStorage]_vars

\* the text is empty or holds white space only
Blank(text) ==
    \A i \in 1..Len(text) : SubSeq(text, i, i) \in WhiteSpaceChars

\* C23: addComment called with an empty or whitespace-only text returns
\* false and leaves what is stored (comments, reactions and likes of the
\* poster, and everything else) exactly as it was, whatever was stored.
C23_BlankCommentRejected ==
    \A i \in 1..Len(output.calls) :
        LET c == output.calls[i] IN
        (c.call.name = "addComment" /\ Blank(c.call.text)) =>
            /\ c.result = [returned |-> FALSE]
            /\ c.after = c.before

\* a whitespace-only comment was submitted for a poster that has comments
C23_Witness ==
    \E i \in 1..Len(output.calls) :
        LET c == output.calls[i]
            raw == c.before[storageKey(c.call.abstractId)]
        IN  /\ c.call.name = "addComment"
            /\ c.call.text # "" /\ Blank(c.call.text)
            /\ "json" \in DOMAIN raw
            /\ Len(raw.json.comments) = 2
            /\ c.result = [returned |-> FALSE]

\* the stored item is absent, not parseable, or parseable but not an
\* interactions record
NotInteractions(raw) ==
    raw = NoItem \/ "text" \in DOMAIN raw

\* C24: whatever the stored record of a poster is (absent, not parseable as
\* JSON, or parseable but not shaped like an interactions record),
\* getInteractions, addReaction, addComment and addLike do not throw, return
\* what they return when nothing is stored for the poster and, when they
\* write, store what they store then.
C24_BadRecordReadAsDefault ==
    \A i \in 1..Len(output.calls) :
        LET c == output.calls[i]
            key == storageKey(c.call.abstractId)
            fresh == Perform(c.call, [c.before EXCEPT ![key] = NoItem])
        IN  NotInteractions(c.before[key]) =>
               /\ "threw" \notin DOMAIN c.result
               /\ c.result = fresh.result
               /\ c.after = IF fresh.localStorage[key] = NoItem THEN c.before
                            ELSE fresh.localStorage

\* the same, for the stored items other than those JSON.parse turns into an
\* object or an array
BadRecordReadAsDefaultUnlessObject ==
    \A i \in 1..Len(output.calls) :
        LET c == output.calls[i]
            key == storageKey(c.call.abstractId)
            fresh == Perform(c.call, [c.before EXCEPT ![key] = NoItem])
        IN  (NotInteractions(c.before[key])
                /\ c.before[key] \notin {[text |-> "{}"], [text |-> "[]"]}) =>
               /\ "threw" \notin DOMAIN c.result
               /\ c.result = fresh.result
               /\ c.after = IF fresh.localStorage[key] = NoItem THEN c.before
                            ELSE fresh.localStorage

----------------------------------------------------------------------------
(* Overlapping polls: the interval fires while the answer to an earlier    *)
(* poll is still on its way (setInterval does not wait for the fetch), so  *)
(* two polls of the hook are in flight; no key expires and no request      *)
(* fails                                                                   *)

OverlapSlots == {1, 2}

InitOverlap ==
    /\ redis = [k \in Keys |-> NoRoom]
    /\ now = 0
    /\ posts = [w \in Writers |-> Idle]
    /\ gets = [s \in OverlapSlots |-> Idle]
    /\ returned = [k \in Keys |-> << >>]
    /\ versionRef = 0
    /\ mountedRef = TRUE
    /\ pollingRef = FALSE
    /\ consecutiveErrorsRef = 0
    /\ isConnected = TRUE
    /\ delivered = "none"
    /\ InitObjects
    /\ input = Idle
    /\ output = Idle

NextOverlap ==
    \/ EffectStart /\ UNCHANGED <<serverVars, posts, returned, utilVars>>
    \/ TimerTick /\ UNCHANGED <<serverVars, posts, returned, utilVars>>
    \/ \E s \in DOMAIN gets :
          ServeGET(s) /\ UNCHANGED <<serverVars, posts, returned, hookVars, utilVars>>
    \/ \E s \in DOMAIN gets :
          PollReceive(s) /\ UNCHANGED <<serverVars, posts, returned, utilVars>>
    \/ ControllerPOST(1, {<<HookRoom>>}, WriteTypes)
          /\ UNCHANGED <<gets, returned, hookVars, utilVars>>
    \/ POSTset(1) /\ UNCHANGED <<gets, returned, hookVars, utilVars>>
    \/ ControllerReceive(1)
          /\ UNCHANGED <<serverVars, gets, returned, hookVars, utilVars>>

SpecOverlap == InitOverlap /\ [][NextOverlap]_vars

\* C25: with polls overlapping and their answers arriving in any order, the
\* version the presenter records (the one it sends as sinceVersion) never
\* decreases, and an answer handed to onPresentationChange is never that of
\* a server version older than the one recorded.
C25_PresenterNeverGoesBack ==
    [][ /\ versionRef' >= versionRef
        /\ \A s \in DOMAIN gets :
              ( /\ PollReceive(s)
                /\ gets[s].resp.body.changed )
              => gets[s].resp.body.version >= versionRef ]_vars

----------------------------------------------------------------------------
(* LocalFilesProvider: loadDirectory and loadSpreadsheet.  Each call is    *)
(* split in two: the call up to its first await, with what its closure    *)
(* holds, and the rest of it, when the picker, the scan or the parse has   *)
(* finished.                                                               *)

\* rebuildAbstracts(files, rows): the list handed to setAbstracts
rebuildAbstracts(files, rows) ==
    generateAbstractList(files, rows,
                         [i \in 1..Len(files) |-> parseFilename(files[i].name)])

\* the directories the user may pick: one without poster files, two with
LoadedTrees ==
    {DirEntry("root", <<FileEntry("notes.txt")>>),
     DirEntry("root", <<FileEntry("ABS-5.jpg")>>),
     DirEntry("root", <<DirEntry("sub", <<FileEntry("ABS-12.pdf")>>),
                        FileEntry("poster.png")>>)}

\* what parseSpreadsheet returns for the files the user may choose
ParsedSheets ==
    {<<Row("ABS-5", "T5", "A5", "D5")>>,
     <<Row("ABS-12", "", "", "D12"), Row("ABS-7", "T7", "", "")>>}

\* loadDirectory() is called: the callback of the latest render holds the
\* spreadsheetRows of that render; the picker opens
loadDirectory ==
    /\ loads.loadDirectory = Idle
    /\ loads' = [loads EXCEPT !.loadDirectory =
                    [spreadsheetRows |-> provider.spreadsheetRows]]
    /\ provider' = provider

\* the rest of loadDirectory: the picker has answered and, for a picked
\* directory, the scan has finished
loadDirectoryResumes ==
    /\ loads.loadDirectory # Idle
    /\ loads' = [loads EXCEPT !.loadDirectory = Idle]
    /\ \E outcome \in {[resolved |-> t] : t \in LoadedTrees} \cup {AbortError} :
          LET fsm == pickDirectory(NoDirectory, outcome)
              picked == fsm.result = [returned |-> TRUE]
              files == scanFiles(fsm.directoryHandle).files
          IN  IF ~picked THEN provider' = provider
              ELSE provider' =
                      [provider EXCEPT
                          !.scannedFilesRef = files,
                          !.directoryHandle = fsm.directoryHandle,
                          !.abstracts =
                              rebuildAbstracts(files,
                                               loads.loadDirectory.spreadsheetRows),
                          !.isLoaded = TRUE]

\* loadSpreadsheet() is called: the file picker opens
loadSpreadsheet ==
    /\ loads.loadSpreadsheet = Idle
    /\ loads' = [loads EXCEPT !.loadSpreadsheet = [picking |-> TRUE]]
    /\ provider' = provider

\* the rest of loadSpreadsheet, with no file chosen
loadSpreadsheetCancelled ==
    /\ loads.loadSpreadsheet # Idle
    /\ loads' = [loads EXCEPT !.loadSpreadsheet = Idle]
    /\ provider' = provider

\* the rest of loadSpreadsheet: a file was chosen and parseSpreadsheet has
\* finished
loadSpreadsheetResumes ==
    /\ loads.loadSpreadsheet # Idle
    /\ loads' = [loads EXCEPT !.loadSpreadsheet = Idle]
    /\ \E rows \in ParsedSheets :
          provider' =
             [provider EXCEPT
                 !.spreadsheetRows = Loaded(rows),
                 !.abstracts =
                     IF Len(provider.scannedFilesRef) > 0
                     THEN rebuildAbstracts(provider.scannedFilesRef, Loaded(rows))
                     ELSE @]

NextLoad ==
    \/ loadDirectory
          /\ UNCHANGED <<input, output, relayVars, directoryHandle, localStorage, wsVars>>
    \/ loadDirectoryResumes
          /\ UNCHANGED <<input, output, relayVars, directoryHandle, localStorage, wsVars>>
    \/ loadSpreadsheet
          /\ UNCHANGED <<input, output, relayVars, directoryHandle, localStorage, wsVars>>
    \/ loadSpreadsheetCancelled
          /\ UNCHANGED <<input, output, relayVars, directoryHandle, localStorage, wsVars>>
    \/ loadSpreadsheetResumes
          /\ UNCHANGED <<input, output, relayVars, directoryHandle, localStorage, wsVars>>

SpecLoad == Init /\ [][NextLoad]_vars

\* no loadDirectory or loadSpreadsheet call is in progress
NoLoadInProgress ==
    loads.loadDirectory = Idle /\ loads.loadSpreadsheet = Idle

\* C26: whenever no load is in progress and a directory has been loaded,
\* the published abstract list is generateAbstractList of the files scanned
\* last and the spreadsheet rows parsed last, in every order and
\* interleaving of the two loads.
C26_AbstractsAreCurrent ==
    (NoLoadInProgress /\ provider.isLoaded) =>
        provider.abstracts =
            rebuildAbstracts(provider.scannedFilesRef, provider.spreadsheetRows)

----------------------------------------------------------------------------
(* The relay: unmounting and rejected writes *)

\* the answer to the poll in slot s arrives and is handed to
\* onPresentationChange
Delivery(s) ==
    /\ PollReceive(s)
    /\ gets[s].resp.status = 200
    /\ gets[s].resp.body.changed

\* C27: after the polling context is unmounted, onPresentationChange is not
\* invoked and the locally recorded version does not change any more, also
\* when a poll sent before the unmount completes afterwards.
C27_NothingAfterUnmount ==
    [][ ~mountedRef =>
           /\ versionRef' = versionRef
           /\ \A s \in DOMAIN gets : ~Delivery(s) ]_vars

\* the request of controller c is answered in this step
Answered(c) ==
    /\ posts[c] = Idle \/ posts[c].stage = "read"
    /\ posts'[c] # Idle
    /\ posts'[c].stage = "answered"

\* C28: a write request whose type is neither present_abstract nor
\* close_presentation, or whose handling fails while reading or storing the
\* room, is answered success=false (status 400) and leaves every stored room
\* as it was: version, payload and timestamp unchanged, no room created.
\* And no request answered success=false has changed a room.
C28_RejectedWriteChangesNothing ==
    [][ \A c \in Controllers :
          /\ ( /\ Answered(c)
               /\ \/ posts'[c].type \notin WriteTypes
                  \/ ControllerPOSTError(c, RoomFields, Types)
                  \/ POSTsetError(c) )
             => /\ posts'[c].resp.status = 400
                /\ posts'[c].resp.body.success = FALSE
                /\ redis' = redis
          /\ (Answered(c) /\ ~posts'[c].resp.body.success) => redis' = redis ]_vars

\* a request of an unknown type for a room never written was answered 400
\* and the room is still absent, while the other room is stored
C28_Witness ==
    \E c \in Controllers :
        /\ posts[c] # Idle /\ posts[c].stage = "answered"
        /\ posts[c].type = "bogus"
        /\ posts[c].resp = POSTerror
        /\ redis[posts[c].roomKey] = NoRoom
        /\ \E k \in Keys : redis[k] # NoRoom

----------------------------------------------------------------------------
(* websocket-server.js: the relay over WebSocket.  Date.now() is the       *)
(* clock `now`, in milliseconds here.                                      *)

\* the clock advances at most MaxClock times
MaxClock == 1
\* at most MaxMessages messages are received by the server
MaxMessages == 2

ClientTypes == {"laptop", "bigscreen"}

\* what a client may send: the two relayed types, another type, and (Null)
\* a text that is not JSON
ClientMessages ==
    {[type |-> "present_abstract", data |-> "p1"],
     [type |-> "close_presentation"],
     [type |-> "ping"],
     [type |-> Null]}

\* the messages the server has received so far
Received == IF output = Idle THEN 0 ELSE output.received

\* clients.delete(clientId)
MapDelete(map, clientId) ==
    [id \in DOMAIN map \ {clientId} |-> map[id]]

\* clients.set(clientId, value): a key already present gets the new value
MapSet(map, clientId, value) ==
    [id \in DOMAIN map \cup {clientId} |->
        IF id = clientId THEN value ELSE map[id]]

\* the connections after broadcastToBigScreens(message): a connection is
\* sent the message once for each entry of clients that holds it with type
\* bigscreen while it is open (no two entries hold the same connection)
broadcastToBigScreens(message) ==
    [s \in Sockets |->
        IF /\ \E id \in DOMAIN clients :
                 clients[id].ws = s /\ clients[id].type = "bigscreen"
           /\ sockets[s].readyState = "OPEN"
        THEN [sockets[s] EXCEPT !.sent = Append(@, message)]
        ELSE sockets[s]]

\* wss.on('connection'): a client connects with ?type=clientType
Connection(s, clientType) ==
    LET clientId == IndexString(now) IN
    /\ sockets[s] = NotConnected
    /\ clients' = MapSet(clients, clientId,
                         [ws |-> s, type |-> clientType, id |-> clientId])
    /\ sockets' = [sockets EXCEPT ![s] =
                      [readyState |-> "OPEN", type |-> clientType,
                       clientId |-> clientId,
                       sent |-> <<[type |-> "connected", clientId |-> clientId]>>]]
    /\ UNCHANGED <<now, output>>

\* ws.on('message') of connection s
Message(s, message) ==
    /\ sockets[s].readyState = "OPEN"
    /\ Received < MaxMessages
    /\ output' = [received |-> Received + 1]
    /\ sockets' = IF message.type \in {"present_abstract", "close_presentation"}
                  THEN broadcastToBigScreens(message)
                  ELSE sockets
    /\ UNCHANGED <<now, clients>>

\* connection s closes: ws.on('close') (after ws.on('error'), if the
\* connection failed) deletes the clientId of the handler's closure
Close(s) ==
    /\ sockets[s].readyState = "OPEN"
    /\ sockets' = [sockets EXCEPT ![s].readyState = "CLOSED"]
    /\ clients' = MapDelete(clients, sockets[s].clientId)
    /\ UNCHANGED <<now, output>>

\* the ping interval fires: the entries whose connection is not open go
PingInterval ==
    /\ clients' = [id \in {i \in DOMAIN clients :
                              sockets[clients[i].ws].readyState = "OPEN"} |->
                      clients[id]]
    /\ UNCHANGED <<now, output, sockets>>

\* a millisecond passes
ClockAdvances ==
    /\ now < MaxClock
    /\ now' = now + 1
    /\ UNCHANGED <<output, clients, sockets>>

NextServer ==
    \/ \E s \in Sockets, clientType \in ClientTypes :
          Connection(s, clientType)
             /\ UNCHANGED <<input, redis, posts, gets, returned, hookVars,
                            directoryHandle, localStorage, provider, loads>>
    \/ \E s \in Sockets, message \in ClientMessages :
          Message(s, message)
             /\ UNCHANGED <<input, redis, posts, gets, returned, hookVars,
                            directoryHandle, localStorage, provider, loads>>
    \/ \E s \in Sockets :
          Close(s)
             /\ UNCHANGED <<input, redis, posts, gets, returned, hookVars,
                            directoryHandle, localStorage, provider, loads>>
    \/ PingInterval
          /\ UNCHANGED <<input, redis, posts, gets, returned, hookVars,
                         directoryHandle, localStorage, provider, loads>>
    \/ ClockAdvances
          /\ UNCHANGED <<input, redis, posts, gets, returned, hookVars,
                         directoryHandle, localStorage, provider, loads>>

SpecServer == Init /\ [][NextServer]_vars

\* C29: every present_abstract or close_presentation message the relay
\* receives from any client is sent to every bigscreen client whose
\* connection is open at that moment, and to no laptop client, whenever
\* the clients connected and in every order of connects, disconnects and
\* messages.
C29_RelayedToEveryOpenBigScreen ==
    [][ \A s \in Sockets, message \in ClientMessages :
          ( /\ Message(s, message)
            /\ message.type \in {"present_abstract", "close_presentation"} )
          => \A t \in Sockets :
                IF sockets[t].readyState = "OPEN" /\ sockets[t].type = "bigscreen"
                THEN sockets'[t].sent = Append(sockets[t].sent, message)
                ELSE sockets'[t] = sockets[t] ]_vars

\* the same, for the messages received while no two connections that are
\* or were open share a clientId
RelayedWhenClientIdsDiffer ==
    [][ \A s \in Sockets, message \in ClientMessages :
          ( /\ Message(s, message)
            /\ message.type \in {"present_abstract", "close_presentation"}
            /\ \A t, u \in Sockets :
                  ( /\ t # u
                    /\ sockets[t] # NotConnected
                    /\ sockets[u] # NotConnected )
                  => sockets[t].clientId # sockets[u].clientId )
          => \A t \in Sockets :
                IF sockets[t].readyState = "OPEN" /\ sockets[t].type = "bigscreen"
                THEN sockets'[t].sent = Append(sockets[t].sent, message)
                ELSE sockets'[t] = sockets[t] ]_vars

----------------------------------------------------------------------------
(* parseSpreadsheet: the columns kept beside the four canonical fields *)

\* the headers parseSpreadsheet copies into `extra`: those that are the
\* source of no canonical field
extraHeaders(headers, mappings) ==
    {headers[i] : i \in {j \in 1..Len(headers) :
                            \A f \in DOMAIN COLUMN_ALIASES :
                                headers[j] # mappings[f]}}

\* the canonical fields whose source is the header
FieldsFrom(header, mappings) ==
    {f \in DOMAIN COLUMN_ALIASES : mappings[f] = header}

\* C30: detectColumnMappings never assigns one header to two canonical
\* fields: each header of the list is the source of exactly one of
\* abstractId, title, author and description, or of none of them and then
\* kept as an extra column of the output rows.
C30_OneFieldPerHeader ==
    output # Idle =>
        \A i \in 1..Len(input) :
            \/ /\ Cardinality(FieldsFrom(input[i], output)) = 1
               /\ input[i] \notin extraHeaders(input, output)
            \/ /\ FieldsFrom(input[i], output) = {}
               /\ input[i] \in extraHeaders(input, output)

\* every header is the source of at least one canonical field or an extra
\* column, never both
HeaderIsFieldOrExtra ==
    output # Idle =>
        \A i \in 1..Len(input) :
            (FieldsFrom(input[i], output) = {})
                = (input[i] \in extraHeaders(input, output))

====
